---- MODULE Spec2Model ----
(***************************************************************************)
(* Model of the stillverse editor (EditorPageContent): the composition     *)
(* request held in React state, the canvas render effect with its          *)
(* asynchronous photo load and isCancelled guard, and the text layout.     *)
(*                                                                         *)
(* Strings are sequences of one-character strings, so that split, trim,    *)
(* concatenation and measuring are computed character by character.        *)
(* Opacities are percentages (0.35 is 35).  Pixel values are integers: the *)
(* three font sizes make every quantity of the layout integral.            *)
(***************************************************************************)
EXTENDS Integers, Sequences, FiniteSets, TLC

\* ------------------------------------------------------------------ bounds
\* longest verse text enumerated by the layout specification
MaxLen == 5
\* most image loads whose onload/onerror has not fired yet
MaxLoads == 2

\* most calls of handleVerseSearch, and of handlePhotoSearch, awaiting their
\* response at once
MaxLookups == 2

\* longest reference label enumerated by the file-name specification
MaxRef == 4

\* ------------------------------------------------------- program constants
\* selectedPhoto starts as null
Null == "null"
\* an optional colour that is absent (PaletteSetting.backgroundAlt)
Undefined == <<"undefined">>

\* a JSON value that is truthy and no string
NotAString == <<"number">>

Styles == {"minimal", "gradient", "paper", "night"}
Sizes == {"story", "square", "wide"}
BackgroundModes == {"palette", "photo"}

SIZE_DIMENSIONS ==
  [story  |-> [width |-> 1080, height |-> 1920],
   square |-> [width |-> 1080, height |-> 1080],
   wide   |-> [width |-> 1920, height |-> 1080]]

DEFAULT_PHOTO_APPEARANCE ==
  [photoOpacity |-> 100,
   overlayColor |-> <<"#","0","0","0","0","0","0">>,
   overlayOpacity |-> 35,
   textColor |-> <<"#","F","F","F","F","F","F">>]

DEFAULT_PALETTE_SETTINGS ==
  [minimal  |-> [background |-> <<"#","F","8","F","7","F","4">>,
                 backgroundAlt |-> Undefined,
                 text |-> <<"#","1","B","4","3","3","2">>],
   gradient |-> [background |-> <<"#","1","B","4","3","3","2">>,
                 backgroundAlt |-> <<"#","2","D","6","A","4","F">>,
                 text |-> <<"#","F","8","F","7","F","4">>],
   paper    |-> [background |-> <<"#","F","F","F","9","F","0">>,
                 backgroundAlt |-> Undefined,
                 text |-> <<"#","1","B","4","3","3","2">>],
   night    |-> [background |-> <<"#","0","F","1","C","1","6">>,
                 backgroundAlt |-> Undefined,
                 text |-> <<"#","F","8","F","7","F","4">>]]

\* the largest box the preview of the canvas is laid out in, in CSS pixels
PREVIEW_BOUNDS ==
  [story  |-> [maxWidth |-> 320, maxHeight |-> 520],
   square |-> [maxWidth |-> 360, maxHeight |-> 360],
   wide   |-> [maxWidth |-> 420, maxHeight |-> 260]]

\* useState("Be still, and know that I am God.")
InitialVerseText ==
  <<"B","e"," ","s","t","i","l","l",","," ","a","n","d"," ","k","n","o","w",
    " ","t","h","a","t"," ","I"," ","a","m"," ","G","o","d",".">>

\* useState("Psalm 46:10")
InitialReference == <<"P","s","a","l","m"," ","4","6",":","1","0">>

\* ----------------------------------------------------------------- inputs
\* what the user may type or pick; small sets that still make every field
\* of the request change
EmptyText == <<>>
VerseInputs == {InitialVerseText, EmptyText}
ReferenceInputs == {InitialReference, EmptyText}
Photos == {"photoA", "photoB"}
CustomColor == <<"#","1","2","3","4","5","6">>
PaletteInputs ==
  {<<"gradient", "backgroundAlt", CustomColor>>,
   <<"minimal", "text", CustomColor>>}
\* keyof PaletteSetting
PaletteKeys == {"background", "backgroundAlt", "text"}
PhotoAppearanceInputs == {<<"overlayOpacity", 0>>}
\* natural size of the decoded image, known only when onload fires
ImageSizes == {<<1080, 1080>>, <<1920, 1080>>}
\* characters of the verse texts enumerated by the layout specification
Alphabet == {"a", " ", "\n"}
\* advance of a letter in half font sizes (the font is the browser's)
EmChoices == {1, 6, 12}

\* references typed into a search box (none, blank, "Jn 1:1"), and the one
\* the APIs answer with
CanonicalReference == <<"J","o","h","n"," ","1",":","1">>
BlankQuery == <<" ">>
QueryInputs == {<<>>, BlankQuery, <<"J","n"," ","1",":","1">>}
TranslationInputs == {"kjv", "esv"}

\* what bible-api.com may answer: the fetch rejects, a status that is not
\* ok, a body that is no JSON, null, or an object with these fields
BibleAnswers ==
  LET BibleAnswer(rejects, ok, jsonThrows, isNull, text, ref, verses) ==
        [rejects |-> rejects, ok |-> ok, jsonThrows |-> jsonThrows,
         isNull |-> isNull, text |-> text, reference |-> ref,
         verses |-> verses]
      NoVerses == [isArray |-> FALSE, items |-> <<>>]
      BibleText == <<" ","a"," ","c","\n">>
  IN
  {BibleAnswer(TRUE, FALSE, FALSE, FALSE, Undefined, Undefined, NoVerses),
   BibleAnswer(FALSE, FALSE, FALSE, FALSE, Undefined, Undefined, NoVerses),
   BibleAnswer(FALSE, TRUE, TRUE, FALSE, Undefined, Undefined, NoVerses),
   BibleAnswer(FALSE, TRUE, FALSE, TRUE, Undefined, Undefined, NoVerses),
   BibleAnswer(FALSE, TRUE, FALSE, FALSE, Undefined, Undefined, NoVerses),
   BibleAnswer(FALSE, TRUE, FALSE, FALSE, BibleText, Undefined, NoVerses),
   BibleAnswer(FALSE, TRUE, FALSE, FALSE, BibleText, CanonicalReference,
               [isArray |-> TRUE,
                items |-> << [text |-> <<" ","a">>],
                             [text |-> <<"c","\n">>] >>]),
   BibleAnswer(FALSE, TRUE, FALSE, FALSE, BibleText, CanonicalReference,
               [isArray |-> TRUE, items |-> << [text |-> Undefined] >>]),
   BibleAnswer(FALSE, TRUE, FALSE, FALSE, NotAString, CanonicalReference,
               [isArray |-> TRUE, items |-> <<>>])}

\* what api.esv.org may answer to the route
EsvAnswers ==
  LET EsvAnswer(rejects, ok, status, isObject, passages, canonical) ==
        [rejects |-> rejects, ok |-> ok, status |-> status,
         isObject |-> isObject, passages |-> passages,
         canonical |-> canonical]
      NoPassages == [isArray |-> FALSE, items |-> <<>>]
      EsvPassage ==
        <<"J","o","h","n"," ","1",":","1","\n"," ","[","1","]"," ","a"," ",
          " ","b","\n">>
  IN
  {EsvAnswer(TRUE, FALSE, 0, FALSE, NoPassages, Undefined),
   EsvAnswer(FALSE, FALSE, 404, FALSE, NoPassages, Undefined),
   EsvAnswer(FALSE, TRUE, 200, FALSE, NoPassages, Undefined),
   EsvAnswer(FALSE, TRUE, 200, TRUE, NoPassages, Undefined),
   EsvAnswer(FALSE, TRUE, 200, TRUE, [isArray |-> TRUE, items |-> <<>>],
             CanonicalReference),
   EsvAnswer(FALSE, TRUE, 200, TRUE,
             [isArray |-> TRUE, items |-> <<EsvPassage>>], CanonicalReference),
   EsvAnswer(FALSE, TRUE, 200, TRUE,
             [isArray |-> TRUE, items |-> <<EsvPassage>>], Undefined),
   EsvAnswer(FALSE, TRUE, 200, TRUE,
             [isArray |-> TRUE, items |-> <<CanonicalReference>>],
             CanonicalReference)}

\* what a pending lookup may meet: an answer of bible-api.com, or, for
\* /api/esv, a fetch that rejects, a gateway answering for the route with a
\* body that is no JSON, or the route with an answer of api.esv.org
VerseOutcomes ==
  LET VerseOutcome(for, net, bible, esv) ==
        [for |-> for, net |-> net, bible |-> bible, esv |-> esv]
      b0 == CHOOSE b \in BibleAnswers : b.rejects
      e0 == CHOOSE e \in EsvAnswers : e.rejects
  IN {VerseOutcome("bible-api", "route", b, e0) : b \in BibleAnswers}
     \cup {VerseOutcome("esv-api", "route", b0, e) : e \in EsvAnswers}
     \cup {VerseOutcome("esv-api", n, b0, e0) : n \in {"rejects", "gateway"}}

\* keywords typed into the photo search box (none, blank, "sky")
KeywordInputs == {<<>>, BlankQuery, <<"s","k","y">>}

\* what api.unsplash.com may answer to the route: the fetch rejects, a
\* status that is not ok, a body that is no JSON, null, an object without a
\* results array, or one with a results array of photos, with and without
\* their optional fields
UnsplashAnswers ==
  LET UnsplashAnswer(rejects, ok, status, jsonThrows, isNull, results) ==
        [rejects |-> rejects, ok |-> ok, status |-> status,
         jsonThrows |-> jsonThrows, isNull |-> isNull, results |-> results]
      NoResults == [kind |-> "undefined", items |-> <<>>]
      UnsplashPhotoA ==
        [id |-> <<"A">>, description |-> Undefined,
         alt_description |-> <<"a">>, user_name |-> Undefined,
         links_html |-> Undefined, urls_small |-> <<"s">>,
         urls_regular |-> <<"r">>]
      UnsplashPhotoB ==
        [id |-> <<"B">>, description |-> <<"b">>,
         alt_description |-> Undefined, user_name |-> <<"n">>,
         links_html |-> <<"l">>, urls_small |-> <<"s">>,
         urls_regular |-> <<"r">>]
  IN
  {UnsplashAnswer(TRUE, FALSE, 0, FALSE, FALSE, NoResults),
   UnsplashAnswer(FALSE, FALSE, 403, FALSE, FALSE, NoResults),
   UnsplashAnswer(FALSE, TRUE, 200, TRUE, FALSE, NoResults),
   UnsplashAnswer(FALSE, TRUE, 200, FALSE, TRUE, NoResults),
   UnsplashAnswer(FALSE, TRUE, 200, FALSE, FALSE, NoResults),
   UnsplashAnswer(FALSE, TRUE, 200, FALSE, FALSE,
                  [kind |-> "array", items |-> <<>>]),
   UnsplashAnswer(FALSE, TRUE, 200, FALSE, FALSE,
                  [kind |-> "array", items |-> <<UnsplashPhotoA>>]),
   UnsplashAnswer(FALSE, TRUE, 200, FALSE, FALSE,
                  [kind |-> "array",
                   items |-> <<UnsplashPhotoA, UnsplashPhotoB>>])}

\* what a pending photo search may meet
PhotoOutcomes ==
  {[net |-> "route", up |-> u] : u \in UnsplashAnswers}
  \cup {[net |-> n, up |-> CHOOSE u \in UnsplashAnswers : u.rejects] :
          n \in {"rejects", "gateway"}}

\* ------------------------------------------------------------------ state
VARIABLES
  verseText, reference, style, size, backgroundMode, selectedPhoto,
  paletteSettings, photoAppearance,
  canvas,     \* the canvas element: pixel size and what was drawn, in order
  effect,     \* the render effect currently mounted
  loads,      \* images whose onload/onerror has not fired, oldest first
  searchError, photoError,   \* the inline error messages (null: none)
  em,         \* letter advance of the font in use, in half font sizes
  searchQuery, isSearching, translation,
  lookups,    \* calls of handleVerseSearch awaiting their response
  photoSearchTerm, photoResults, isPhotoSearching, photoPage,
  photoSearches,   \* calls of handlePhotoSearch awaiting their response
  env,        \* process.env of the server: which keys are configured
  route,      \* the page shown and the search parameters of its URL
  landing,    \* the state of LandingPage
  hasHandledInitialParams,
  download    \* the file last offered by handleDownload

requestVars == <<verseText, reference, style, size, backgroundMode,
                 selectedPhoto, paletteSettings, photoAppearance>>
errorVars == <<searchError, photoError>>
verseSearchVars == <<searchQuery, isSearching, translation, lookups>>
photoSearchVars == <<photoSearchTerm, photoResults, isPhotoSearching,
                     photoPage, photoSearches>>
pageVars == <<env, route, landing, hasHandledInitialParams>>
\* what neither a setter of the request nor a load event touches
formVars == <<errorVars, em, verseSearchVars, photoSearchVars, pageVars,
              download>>
vars == <<requestVars, canvas, effect, loads, formVars>>

\* the values a render closes over
Request ==
  [verseText |-> verseText, reference |-> reference, style |-> style,
   size |-> size, backgroundMode |-> backgroundMode,
   selectedPhoto |-> selectedPhoto, paletteSettings |-> paletteSettings,
   photoAppearance |-> photoAppearance]

\* --------------------------------------------------------- string helpers
\* String.prototype.trim strips every leading and trailing white space
IsWhiteSpace(c) == c \in {" ", "\n"}

RECURSIVE TrimStart(_)
TrimStart(s) ==
  IF s = <<>> THEN <<>>
  ELSE IF IsWhiteSpace(Head(s)) THEN TrimStart(Tail(s)) ELSE s

RECURSIVE TrimEnd(_)
TrimEnd(s) ==
  IF s = <<>> THEN <<>>
  ELSE IF IsWhiteSpace(s[Len(s)]) THEN TrimEnd(SubSeq(s, 1, Len(s) - 1))
  ELSE s

Trim(s) == TrimEnd(TrimStart(s))

\* verseText.split(" "): cuts at every single space, keeps empty pieces
RECURSIVE SplitFrom(_, _, _)
SplitFrom(s, cur, acc) ==
  IF s = <<>> THEN Append(acc, cur)
  ELSE IF Head(s) = " " THEN SplitFrom(Tail(s), <<>>, Append(acc, cur))
  ELSE SplitFrom(Tail(s), Append(cur, Head(s)), acc)

Split(s) == SplitFrom(s, <<>>, <<>>)

\* ---------------------------------------------------------------- layout
FontSize(sz) == IF sz = "story" THEN 72 ELSE IF sz = "wide" THEN 64 ELSE 68
\* the reference in the size of the body
RefFontSizeOfBody(sz) == FontSize(sz)
RefFontSize(sz) == IF sz = "story" THEN 36 ELSE IF sz = "wide" THEN 32 ELSE 34

\* advance of one character: the canvas turns every white space of the text
\* into a space before measuring or drawing it
Advance(c, fontSize, m) ==
  IF IsWhiteSpace(c) THEN fontSize \div 4 ELSE (fontSize * m) \div 2

\* ctx.measureText(s).width
RECURSIVE measureText(_, _, _)
measureText(s, fontSize, m) ==
  IF s = <<>> THEN 0
  ELSE Advance(Head(s), fontSize, m) + measureText(Tail(s), fontSize, m)

MaxWidth(width) == (width * 8) \div 10

\* the forEach over the words, followed by the final push
RECURSIVE WrapFrom(_, _, _, _, _, _)
WrapFrom(words, currentLine, lines, fontSize, maxWidth, m) ==
  IF words = <<>> THEN Append(lines, Trim(currentLine))
  ELSE
    LET word == Head(words)
        testLine == currentLine \o word \o <<" ">>
    IN IF measureText(testLine, fontSize, m) > maxWidth /\ currentLine # <<>>
       THEN WrapFrom(Tail(words), word \o <<" ">>,
                     Append(lines, Trim(currentLine)), fontSize, maxWidth, m)
       ELSE WrapFrom(Tail(words), testLine, lines, fontSize, maxWidth, m)

WrapLines(text, sz, m) ==
  WrapFrom(Split(text), <<>>, <<>>, FontSize(sz),
           MaxWidth(SIZE_DIMENSIONS[sz].width), m)

LineHeight(sz) == (FontSize(sz) * 3) \div 2
TotalHeight(lines, sz) == Len(lines) * LineHeight(sz)
\* the block height is not halved
StartYNotHalved(lines, sz) ==
  SIZE_DIMENSIONS[sz].height \div 2 - TotalHeight(lines, sz)

StartY(lines, sz) == (SIZE_DIMENSIONS[sz].height - TotalHeight(lines, sz)) \div 2
LineY(lines, sz, index) ==
  StartY(lines, sz) + index * LineHeight(sz) + LineHeight(sz) \div 2
ReferenceY(lines, sz) == StartY(lines, sz) + TotalHeight(lines, sz) + 80

\* ------------------------------------------------------------- drawing
\* fill styles
Solid(color) ==
  [kind |-> "color", c0 |-> color, c1 |-> color, rgb |-> <<>>, a |-> 100,
   line |-> <<>>]
\* ctx.createLinearGradient(x0, y0, x1, y1) with colour stops at 0 and 1
LinearGradient(x0, y0, x1, y1, from, to) ==
  [kind |-> "gradient", c0 |-> from, c1 |-> to, rgb |-> <<>>, a |-> 100,
   line |-> <<x0, y0, x1, y1>>]
Rgba(r, g, b, alpha) ==
  [kind |-> "rgba", c0 |-> <<>>, c1 |-> <<>>, rgb |-> <<r, g, b>>, a |-> alpha,
   line |-> <<>>]

NoImage == [full |-> Null, w |-> 0, h |-> 0]

\* one drawing call on the 2d context, with the context state it used
FillRect(fillStyle, x, y, w, h) ==
  [op |-> "fillRect", fillStyle |-> fillStyle, text |-> <<>>, x |-> x, y |-> y,
   w |-> w, h |-> h, font |-> 0, globalAlpha |-> 100, image |-> NoImage]
FillText(fillStyle, text, x, y, font) ==
  [op |-> "fillText", fillStyle |-> fillStyle, text |-> text, x |-> x, y |-> y,
   w |-> 0, h |-> 0, font |-> font, globalAlpha |-> 100, image |-> NoImage]
DrawImage(image, dx, dy, w, h, alpha) ==
  [op |-> "drawImage", fillStyle |-> Solid(<<>>), text |-> <<>>, x |-> dx,
   y |-> dy, w |-> w, h |-> h, font |-> 0, globalAlpha |-> alpha,
   image |-> image]
\* the 1000 random 2x2 specks of the paper style, as one call
Speckle(w, h) ==
  [op |-> "speckle", fillStyle |-> Rgba(139, 115, 85, 3), text |-> <<>>,
   x |-> 0, y |-> 0, w |-> w, h |-> h, font |-> 0, globalAlpha |-> 100,
   image |-> NoImage]

HexDigits ==
  <<"0","1","2","3","4","5","6","7","8","9","A","B","C","D","E","F">>
LowerHexDigits ==
  <<"0","1","2","3","4","5","6","7","8","9","a","b","c","d","e","f">>
NaN == 0 - 1
HexValue(c) ==
  IF \E i \in 1..16 : HexDigits[i] = c \/ LowerHexDigits[i] = c
  THEN (CHOOSE i \in 1..16 : HexDigits[i] = c \/ LowerHexDigits[i] = c) - 1
  ELSE NaN
\* parseInt(twoChars, 16): the longest prefix of hex digits
ParseHexPair(s) ==
  IF s = <<>> \/ HexValue(s[1]) = NaN THEN NaN
  ELSE IF Len(s) < 2 \/ HexValue(s[2]) = NaN THEN HexValue(s[1])
  ELSE 16 * HexValue(s[1]) + HexValue(s[2])

\* hex.replace("#", ""): removes the first "#"
RECURSIVE RemoveFirstHash(_)
RemoveFirstHash(s) ==
  IF s = <<>> THEN <<>>
  ELSE IF Head(s) = "#" THEN Tail(s)
  ELSE <<Head(s)>> \o RemoveFirstHash(Tail(s))

PadEnd6(s) == SubSeq(s \o <<"0","0","0","0","0","0">>, 1, 6)

hexToRgba(hex, alpha) ==
  LET sanitized == RemoveFirstHash(hex)
      isShort == Len(sanitized) = 3
      fullHex == IF isShort
                 THEN <<sanitized[1], sanitized[1], sanitized[2], sanitized[2],
                        sanitized[3], sanitized[3]>>
                 ELSE PadEnd6(sanitized)
  IN Rgba(ParseHexPair(SubSeq(fullHex, 1, 2)),
          ParseHexPair(SubSeq(fullHex, 3, 4)),
          ParseHexPair(SubSeq(fullHex, 5, 6)), alpha)

\* drawTextLayer(textColor) in the closure r
drawTextLayer(r, textColor, m) ==
  LET width == SIZE_DIMENSIONS[r.size].width
      lines == WrapLines(r.verseText, r.size, m)
      verseOps == [i \in 1..Len(lines) |->
                     FillText(Solid(textColor), lines[i], width \div 2,
                              LineY(lines, r.size, i - 1), FontSize(r.size))]
  IN IF r.reference # <<>>
     THEN Append(verseOps,
                 FillText(Solid(textColor \o <<"C","C">>), r.reference,
                          width \div 2, ReferenceY(lines, r.size),
                          RefFontSize(r.size)))
     ELSE verseOps

\* the gradient ends in backgroundAlt even when there is none
PaletteFillNoFallback(r) ==
  LET width == SIZE_DIMENSIONS[r.size].width
      height == SIZE_DIMENSIONS[r.size].height
      palette == r.paletteSettings[r.style]
  IN IF r.style = "gradient"
     THEN <<FillRect(LinearGradient(0, 0, 0, height, palette.background,
                                    palette.backgroundAlt),
                     0, 0, width, height)>>
     ELSE <<FillRect(Solid(palette.background), 0, 0, width, height)>>
          \o (IF r.style = "paper" THEN <<Speckle(width, height)>> ELSE <<>>)

\* the fills of drawPaletteBackground, before it draws the text
PaletteFill(r) ==
  LET width == SIZE_DIMENSIONS[r.size].width
      height == SIZE_DIMENSIONS[r.size].height
      palette == r.paletteSettings[r.style]
  IN IF r.style = "gradient"
     THEN <<FillRect(LinearGradient(0, 0, 0, height, palette.background,
                       IF palette.backgroundAlt = Undefined
                       THEN palette.background ELSE palette.backgroundAlt),
                     0, 0, width, height)>>
     ELSE <<FillRect(Solid(palette.background), 0, 0, width, height)>>
          \o (IF r.style = "paper" THEN <<Speckle(width, height)>> ELSE <<>>)

\* the text is drawn before the fill
drawPaletteBackgroundTextFirst(r, m) ==
  IF r.style \notin DOMAIN r.paletteSettings THEN <<>>
  ELSE drawTextLayer(r, r.paletteSettings[r.style].text, m) \o PaletteFill(r)

drawPaletteBackground(r, m) ==
  IF r.style \notin DOMAIN r.paletteSettings THEN <<>>
  ELSE PaletteFill(r) \o drawTextLayer(r, r.paletteSettings[r.style].text, m)

\* ctx.restore() is missing: the overlay is filled with the alpha of the
\* image
PhotoFillAlphaKept(r, img) ==
  LET width == SIZE_DIMENSIONS[r.size].width
      height == SIZE_DIMENSIONS[r.size].height
      byWidth == width * img[2] >= height * img[1]
      scaledWidth == IF byWidth THEN width ELSE (img[1] * height) \div img[2]
      scaledHeight == IF byWidth THEN (img[2] * width) \div img[1] ELSE height
      dx == (width - scaledWidth) \div 2
      dy == (height - scaledHeight) \div 2
  IN <<DrawImage([full |-> r.selectedPhoto, w |-> width, h |-> height],
                 dx, dy, scaledWidth, scaledHeight,
                 r.photoAppearance.photoOpacity)>>
     \o (IF r.photoAppearance.overlayOpacity > 0
         THEN <<[FillRect(hexToRgba(r.photoAppearance.overlayColor,
                                    r.photoAppearance.overlayOpacity),
                          0, 0, width, height)
                  EXCEPT !.globalAlpha = r.photoAppearance.photoOpacity]>>
         ELSE <<>>)

\* the drawing of img.onload once past the isCancelled guard; img is the
\* natural size of the decoded image
PhotoFill(r, img) ==
  LET width == SIZE_DIMENSIONS[r.size].width
      height == SIZE_DIMENSIONS[r.size].height
      byWidth == width * img[2] >= height * img[1]
      scaledWidth == IF byWidth THEN width ELSE (img[1] * height) \div img[2]
      scaledHeight == IF byWidth THEN (img[2] * width) \div img[1] ELSE height
      dx == (width - scaledWidth) \div 2
      dy == (height - scaledHeight) \div 2
  IN <<DrawImage([full |-> r.selectedPhoto, w |-> width, h |-> height],
                 dx, dy, scaledWidth, scaledHeight,
                 r.photoAppearance.photoOpacity)>>
     \o (IF r.photoAppearance.overlayOpacity > 0
         THEN <<FillRect(hexToRgba(r.photoAppearance.overlayColor,
                                   r.photoAppearance.overlayOpacity),
                         0, 0, width, height)>>
         ELSE <<>>)

\* the text over a photo in the text colour of the palette
PhotoOpsPaletteText(r, img, m) ==
  PhotoFill(r, img) \o drawTextLayer(r, r.paletteSettings[r.style].text, m)

PhotoOps(r, img, m) ==
  PhotoFill(r, img) \o drawTextLayer(r, r.photoAppearance.textColor, m)

\* ------------------------------------------------------- the render effect
\* the dependency array without the two settings objects
EffectDepsWithoutSettings ==
  {"verseText", "reference", "style", "size", "backgroundMode",
   "selectedPhoto"}

\* the dependency array of the render effect
EffectDeps ==
  {"verseText", "reference", "style", "size", "backgroundMode",
   "selectedPhoto", "paletteSettings", "photoAppearance"}

\* React re-runs the effect when a dependency differs from the last render:
\* another value, or (fresh) an object built anew by its setter
DepsChanged(old, new, fresh) ==
  \E d \in EffectDeps : old[d] # new[d] \/ d \in fresh

\* the mode is not looked at
UsePhotoBranchAnyMode(r) == r.selectedPhoto # Null

\* if (backgroundMode === "photo" && selectedPhoto)
UsePhotoBranch(r) == r.backgroundMode = "photo" /\ r.selectedPhoto # Null

\* a load whose effect was torn down: isCancelled is set, and its handlers
\* return at their first statement, so nothing else of its closure is kept
CancelledLoad == [isCancelled |-> TRUE, closure |-> <<>>]

\* the effect returns no cleanup
CleanupMissing(ls, eff) == ls

\* the cleanup sets the flag of the oldest load
CleanupOldest(ls, eff) ==
  IF eff.imgPending THEN [ls EXCEPT ![1] = CancelledLoad] ELSE ls

\* the cleanup of the mounted effect: isCancelled = true.  The image of the
\* mounted effect, while it has not fired, is the newest entry of loads.
Cleanup(ls, eff) ==
  IF eff.imgPending THEN [ls EXCEPT ![Len(ls)] = CancelledLoad] ELSE ls

\* the pixel buffer keeps the size of the square format
EffectCanvasFixedSize(r, m) ==
  [width |-> SIZE_DIMENSIONS["square"].width,
   height |-> SIZE_DIMENSIONS["square"].height,
   ops |-> IF UsePhotoBranch(r) THEN <<>> ELSE drawPaletteBackground(r, m)]

\* canvas.width = width; canvas.height = height (this clears the canvas),
\* then either start the image load or draw the palette
EffectCanvas(r, m) ==
  [width |-> SIZE_DIMENSIONS[r.size].width,
   height |-> SIZE_DIMENSIONS[r.size].height,
   ops |-> IF UsePhotoBranch(r) THEN <<>> ELSE drawPaletteBackground(r, m)]

EffectLoads(r, ls) ==
  IF UsePhotoBranch(r)
  THEN Append(ls, [isCancelled |-> FALSE, closure |-> <<r>>])
  ELSE ls

EffectRecord(r) ==
  [mounted |-> TRUE,
   branch |-> IF UsePhotoBranch(r) THEN "photo" ELSE "palette",
   imgPending |-> UsePhotoBranch(r)]

RunEffect(r, ls) ==
  /\ UsePhotoBranch(r) => Len(ls) < MaxLoads
  /\ canvas' = EffectCanvas(r, em)
  /\ loads' = EffectLoads(r, ls)
  /\ effect' = EffectRecord(r)

\* the state r is committed; the effect is torn down and run again when one
\* of its dependencies changed
Render(r, fresh) ==
  /\ effect.mounted
  /\ verseText' = r.verseText
  /\ reference' = r.reference
  /\ style' = r.style
  /\ size' = r.size
  /\ backgroundMode' = r.backgroundMode
  /\ selectedPhoto' = r.selectedPhoto
  /\ paletteSettings' = r.paletteSettings
  /\ photoAppearance' = r.photoAppearance
  /\ IF DepsChanged(Request, r, fresh)
     THEN RunEffect(r, Cleanup(loads, effect))
     ELSE UNCHANGED <<canvas, effect, loads>>

\* a setter of the request called from an input of the editor
Commit(r, fresh) == Render(r, fresh) /\ UNCHANGED formVars

\* the character classes of the regular expressions: [A-Z], [a-z],
\* [A-Za-z], \d and \s
CharClass ==
  LET upper == <<"A","B","C","D","E","F","G","H","I","J","K","L","M",
                 "N","O","P","Q","R","S","T","U","V","W","X","Y","Z">>
      lower == <<"a","b","c","d","e","f","g","h","i","j","k","l","m",
                 "n","o","p","q","r","s","t","u","v","w","x","y","z">>
  IN [upper |-> upper, lower |-> lower,
      letters |-> {upper[k] : k \in 1..26} \cup {lower[k] : k \in 1..26},
      digits |-> {"0","1","2","3","4","5","6","7","8","9"},
      whiteSpace |-> {" ", "\n"}]

\* String.prototype.toLowerCase
toLowerCase(s) ==
  [i \in 1..Len(s) |->
     IF \E k \in 1..26 : CharClass.upper[k] = s[i]
     THEN CharClass.lower[CHOOSE k \in 1..26 : CharClass.upper[k] = s[i]]
     ELSE s[i]]

\* s.replace(/\s+/g, by): every run of white space becomes one by
RECURSIVE ReplaceWhiteSpaceRuns(_, _)
ReplaceWhiteSpaceRuns(s, by) ==
  IF s = <<>> THEN <<>>
  ELSE IF IsWhiteSpace(Head(s))
       THEN by \o ReplaceWhiteSpaceRuns(TrimStart(s), by)
       ELSE <<Head(s)>> \o ReplaceWhiteSpaceRuns(Tail(s), by)

\* ------------------------------------------------------------ verse lookup
\* code -> label and source of the translation table
TRANSLATIONS ==
  [kjv   |-> [label |-> <<"K","J","V">>, source |-> "bible-api"],
   web   |-> [label |-> <<"W","E","B">>, source |-> "bible-api"],
   asv   |-> [label |-> <<"A","S","V">>, source |-> "bible-api"],
   ylt   |-> [label |-> <<"Y","L","T">>, source |-> "bible-api"],
   bbe   |-> [label |-> <<"B","B","E">>, source |-> "bible-api"],
   darby |-> [label |-> <<"D","A","R","B","Y">>, source |-> "bible-api"],
   esv   |-> [label |-> <<"E","S","V">>, source |-> "esv-api"]]

\* the first index from i on whose character is not of the class
RECURSIVE SkipClass(_, _, _)
SkipClass(s, i, class) ==
  IF i <= Len(s) /\ s[i] \in class THEN SkipClass(s, i + 1, class) ELSE i

\* Array.prototype.join
RECURSIVE Join(_, _)
Join(parts, sep) ==
  IF parts = <<>> THEN <<>>
  ELSE IF Len(parts) = 1 THEN parts[1]
  ELSE parts[1] \o sep \o Join(Tail(parts), sep)

\* reference.replace(/\s+\([^)]+\)\s*$/, ""): the trailing " (LABEL)"
StripTranslationSuffix(s) ==
  LET t == TrimEnd(s)
      n == Len(t)
      opens == {j \in 2..(n - 2) :
                  /\ t[j] = "(" /\ IsWhiteSpace(t[j - 1])
                  /\ \A k \in (j + 1)..(n - 1) : t[k] # ")"}
      first == CHOOSE j \in opens : \A k \in opens : j <= k
      start == CHOOSE i \in 1..(first - 1) :
                 /\ \A k \in i..(first - 1) : IsWhiteSpace(t[k])
                 /\ i = 1 \/ ~IsWhiteSpace(t[i - 1])
  IN IF n = 0 \/ t[n] # ")" \/ opens = {} THEN s
     ELSE SubSeq(t, 1, start - 1)

\* passage.replace(/\s*\[\d+\]\s*/g, " "): footnote marks become a space
RECURSIVE ReplaceFootnotes(_)
ReplaceFootnotes(s) ==
  IF s = <<>> THEN <<>>
  ELSE LET open == SkipClass(s, 1, CharClass.whiteSpace)
           close == SkipClass(s, open + 1, CharClass.digits)
           after == SkipClass(s, close + 1, CharClass.whiteSpace)
       IN IF /\ open <= Len(s) /\ s[open] = "["
             /\ close > open + 1
             /\ close <= Len(s) /\ s[close] = "]"
          THEN <<" ">> \o ReplaceFootnotes(SubSeq(s, after, Len(s)))
          ELSE <<Head(s)>> \o ReplaceFootnotes(Tail(s))

\* the words after the first one of a book name: (?:\s[A-Za-z]+)*
RECURSIVE SkipWords(_, _)
SkipWords(s, i) ==
  IF i + 1 <= Len(s) /\ IsWhiteSpace(s[i]) /\ s[i + 1] \in CharClass.letters
  THEN SkipWords(s, SkipClass(s, i + 1, CharClass.letters))
  ELSE i

\* cleaned.replace(/^\s*(?:[1-3]?\s?[A-Za-z]+(?:\s[A-Za-z]+)*)\s\d+:\d+\s*/, "")
StripLeadingReference(s) ==
  LET p0 == SkipClass(s, 1, CharClass.whiteSpace)
      hasDigit == p0 <= Len(s) /\ s[p0] \in {"1", "2", "3"}
      p1 == IF hasDigit THEN p0 + 1 ELSE p0
      p2 == IF hasDigit /\ p1 <= Len(s) /\ IsWhiteSpace(s[p1])
            THEN p1 + 1 ELSE p1
      p3 == SkipClass(s, p2, CharClass.letters)
      p4 == SkipWords(s, p3)
      p5 == SkipClass(s, p4 + 1, CharClass.digits)
      p6 == SkipClass(s, p5 + 1, CharClass.digits)
      p7 == SkipClass(s, p6, CharClass.whiteSpace)
  IN IF /\ p3 > p2
        /\ p4 <= Len(s) /\ IsWhiteSpace(s[p4])
        /\ p5 > p4 + 1
        /\ p5 <= Len(s) /\ s[p5] = ":"
        /\ p6 > p5 + 1
     THEN SubSeq(s, p7, Len(s))
     ELSE s

\* the messages of handleVerseSearch, with error.message of what fetch,
\* response.json and v.text.trim throw
VerseMessages ==
  [EnterReference |-> "Enter a book and verse reference to search.",
   UnknownTranslation |-> "Unknown translation selected.",
   EsvUnable |->
     "Unable to fetch ESV passage. Check the reference and try again.",
   EsvNoText |-> "ESV passage text was not returned for that reference.",
   BibleNotFound |->
     "Unable to find that verse. Check the reference and try again.",
   BibleNoText |-> "Verse text not available for that reference.",
   FailedToFetch |-> "Failed to fetch",
   JsonSyntaxError |-> "Unexpected token < in JSON",
   TrimTypeError |-> "Cannot read properties of undefined (reading 'trim')"]
\* the messages of /api/esv
EsvMessages ==
  [MissingReference |-> "Missing required reference query parameter.",
   NotConfigured |->
     "ESV API key not configured. Set the ESV_API_KEY environment variable.",
   UpstreamFailed |->
     "Failed to fetch passage from ESV API. Verify the reference and API key permissions.",
   NoPassage |-> "No passage text returned for the provided reference.",
   Unexpected |-> "Unexpected error reaching the ESV API."]

\* NextResponse.json(body, { status })
JsonResponse(status, error, ref, text) ==
  [status |-> status, error |-> error, reference |-> ref, text |-> text]
IsOk(response) == response.status \in 200..299

\* the key is not looked at: the request goes upstream without it
ESVRouteNoKeyCheck(ref, apiKey, up) ==
  IF ref = <<>>
  THEN JsonResponse(400, EsvMessages.MissingReference, Undefined, Undefined)
  ELSE IF up.rejects \/ (up.ok /\ ~up.isObject)
  THEN JsonResponse(500, EsvMessages.Unexpected, Undefined, Undefined)
  ELSE IF ~up.ok \/ ~apiKey
  THEN JsonResponse(IF up.ok THEN 401 ELSE up.status, EsvMessages.UpstreamFailed,
                    Undefined, Undefined)
  ELSE LET passage == IF up.passages.isArray
                      THEN Trim(Join(up.passages.items, <<"\n">>))
                      ELSE <<>>
           canonical == IF up.canonical = Undefined THEN ref ELSE up.canonical
           cleaned == Trim(ReplaceWhiteSpaceRuns(ReplaceFootnotes(passage),
                                                 <<" ">>))
       IN IF passage = <<>>
          THEN JsonResponse(404, EsvMessages.NoPassage, Undefined, Undefined)
          ELSE JsonResponse(200, Null, canonical,
                            Trim(StripLeadingReference(cleaned)))

\* GET /api/esv?reference=ref, with the key configured or not, when the ESV
\* API answers up
ESVRoute(ref, apiKey, up) ==
  IF ref = <<>>
  THEN JsonResponse(400, EsvMessages.MissingReference, Undefined, Undefined)
  ELSE IF ~apiKey
  THEN JsonResponse(500, EsvMessages.NotConfigured, Undefined, Undefined)
  ELSE IF up.rejects
  THEN JsonResponse(500, EsvMessages.Unexpected, Undefined, Undefined)
  ELSE IF ~up.ok
  THEN JsonResponse(up.status, EsvMessages.UpstreamFailed, Undefined, Undefined)
  ELSE IF ~up.isObject
  THEN JsonResponse(500, EsvMessages.Unexpected, Undefined, Undefined)
  ELSE LET passage == IF up.passages.isArray
                      THEN Trim(Join(up.passages.items, <<"\n">>))
                      ELSE <<>>
           canonical == IF up.canonical = Undefined THEN ref ELSE up.canonical
           cleaned == Trim(ReplaceWhiteSpaceRuns(ReplaceFootnotes(passage),
                                                 <<" ">>))
       IN IF passage = <<>>
          THEN JsonResponse(404, EsvMessages.NoPassage, Undefined, Undefined)
          ELSE JsonResponse(200, Null, canonical,
                            Trim(StripLeadingReference(cleaned)))

\* !value
IsFalsy(value) == value = Undefined \/ value = <<>>

\* how a call of handleVerseSearch ends, given what the network answered:
\* the three setters of the try block (Found), or the setSearchError of the
\* catch block (Failed), in the esv-api branch or in the bible-api branch
VerseResult(lookup, o) ==
  LET label == TRANSLATIONS[lookup.translation].label
      Found(text, ref) ==
        [ok |-> TRUE, verseText |-> text,
         reference |-> ref \o <<" ", "(">> \o label \o <<")">>,
         searchQuery |-> ref, error |-> Null]
      Failed(message) ==
        [ok |-> FALSE, verseText |-> <<>>, reference |-> <<>>,
         searchQuery |-> <<>>, error |-> message]
      \* fetch(/api/esv?reference=...) met o.net
      response == ESVRoute(lookup.query, env.ESV_API_KEY, o.esv)
      \* fetch(https://bible-api.com/...) met r
      r == o.bible
      verses == r.verses.items
      combinedText ==
        IF r.verses.isArray /\ Len(verses) > 0
        THEN Trim(Join([k \in 1..Len(verses) |-> Trim(verses[k].text)],
                       <<" ">>))
        ELSE IF r.text # NotAString THEN Trim(r.text)
        ELSE <<>>
  IN IF TRANSLATIONS[lookup.translation].source = "esv-api"
     THEN IF o.net = "rejects" THEN Failed(VerseMessages.FailedToFetch)
          ELSE IF o.net = "gateway" THEN Failed(VerseMessages.EsvUnable)
          ELSE IF ~IsOk(response)
          THEN Failed(IF response.error = Null THEN VerseMessages.EsvUnable
                      ELSE response.error)
          ELSE IF IsFalsy(response.text) THEN Failed(VerseMessages.EsvNoText)
          ELSE Found(response.text,
                     IF response.reference = Undefined THEN lookup.query
                     ELSE response.reference)
     ELSE IF r.rejects THEN Failed(VerseMessages.FailedToFetch)
          ELSE IF ~r.ok THEN Failed(VerseMessages.BibleNotFound)
          ELSE IF r.jsonThrows THEN Failed(VerseMessages.JsonSyntaxError)
          ELSE IF r.isNull \/ IsFalsy(r.text)
          THEN Failed(VerseMessages.BibleNoText)
          ELSE IF /\ r.verses.isArray
                  /\ \E k \in 1..Len(verses) : verses[k].text = Undefined
          THEN Failed(VerseMessages.TrimTypeError)
          ELSE Found(combinedText,
                     IF r.reference = Undefined THEN lookup.query
                     ELSE r.reference)

\* ---------------------------------------------------- handleVerseSearch
\* handleVerseSearch(query, selectedTranslation) up to its first await: the
\* empty query is refused, an unknown translation fails inside the try
\* block, and otherwise the request leaves
VerseSearchCall(query, selectedTranslation) ==
  LET trimmedQuery == Trim(query)
  IN IF trimmedQuery = <<>>
     THEN /\ searchError' = VerseMessages.EnterReference
          /\ UNCHANGED <<isSearching, lookups>>
     ELSE IF selectedTranslation \notin DOMAIN TRANSLATIONS
     THEN /\ searchError' = VerseMessages.UnknownTranslation
          /\ isSearching' = FALSE
          /\ UNCHANGED lookups
     ELSE /\ Len(lookups) < MaxLookups
          /\ isSearching' = TRUE
          /\ searchError' = Null
          /\ lookups' = Append(lookups, [query |-> trimmedQuery,
                                         translation |-> selectedTranslation])

\* the effect does not test hasHandledInitialParams.current
InitialParamsEffectUnguarded ==
  IF route.reference = <<>>
  THEN UNCHANGED <<searchError, verseSearchVars, hasHandledInitialParams>>
  ELSE LET translationToUse ==
             IF route.translation \in DOMAIN TRANSLATIONS
             THEN route.translation ELSE translation
       IN /\ translation' = translationToUse
          /\ searchQuery' = route.reference
          /\ hasHandledInitialParams' = TRUE
          /\ VerseSearchCall(route.reference, translationToUse)

\* the effect on the search parameters of the URL: with a reference
\* parameter, the lookup of the shared link starts on the first run; later
\* runs return at hasHandledInitialParams.current or at the missing parameter
InitialParamsEffect ==
  IF hasHandledInitialParams \/ route.reference = <<>>
  THEN UNCHANGED <<searchError, verseSearchVars, hasHandledInitialParams>>
  ELSE LET translationToUse ==
             IF route.translation \in DOMAIN TRANSLATIONS
             THEN route.translation ELSE translation
       IN /\ translation' = translationToUse
          /\ searchQuery' = route.reference
          /\ hasHandledInitialParams' = TRUE
          /\ VerseSearchCall(route.reference, translationToUse)

\* ---------------------------------------------------------------- actions
\* first run of the effect, after the component is mounted
Mount ==
  /\ ~effect.mounted
  /\ route.path = "/editor"
  /\ RunEffect(Request, loads)
  /\ InitialParamsEffect
  /\ UNCHANGED <<requestVars, photoError, em, photoSearchVars, env, route,
                 landing, download>>

\* a later run of the effect on the search parameters: handleVerseSearch,
\* searchParams or translation is a new value after a render
ParamsEffectRerun ==
  /\ effect.mounted
  /\ InitialParamsEffect
  /\ UNCHANGED <<requestVars, canvas, effect, loads, photoError, em,
                 photoSearchVars, env, route, landing, download>>

SetVerseText(t) ==
  /\ t # verseText
  /\ Commit([Request EXCEPT !.verseText = t], {})

SetReference(t) ==
  /\ t # reference
  /\ Commit([Request EXCEPT !.reference = t], {})

SetStyle(s) ==
  /\ s # style
  /\ Commit([Request EXCEPT !.style = s], {})

SetSize(s) ==
  /\ s # size
  /\ Commit([Request EXCEPT !.size = s], {})

\* the mode is stored but the effect does not run again
SetBackgroundModeUnrendered(mode) ==
  /\ mode # backgroundMode
  /\ effect.mounted
  /\ backgroundMode' = mode
  /\ UNCHANGED <<verseText, reference, style, size, selectedPhoto,
                 paletteSettings, photoAppearance, canvas, effect, loads,
                 formVars>>

SetBackgroundMode(mode) ==
  /\ mode # backgroundMode
  /\ Commit([Request EXCEPT !.backgroundMode = mode], {})

\* click on a photo of the results: setSelectedPhoto(photo);
\* setBackgroundMode("photo"), committed together
SelectPhoto(photo) ==
  /\ photo # selectedPhoto \/ backgroundMode # "photo"
  /\ Commit([Request EXCEPT !.selectedPhoto = photo,
                            !.backgroundMode = "photo"], {})

\* the entry is replaced by the one key, without ...prev[targetStyle]
updatePaletteSettingNoSpread(targetStyle, key, value) ==
  Commit([Request EXCEPT
            !.paletteSettings = [paletteSettings EXCEPT
               ![targetStyle] = [[background |-> Undefined,
                                  backgroundAlt |-> Undefined,
                                  text |-> Undefined] EXCEPT ![key] = value]]],
         {"paletteSettings"})

updatePaletteSetting(targetStyle, key, value) ==
  Commit([Request EXCEPT
            !.paletteSettings = [paletteSettings EXCEPT
                                   ![targetStyle] = [@ EXCEPT ![key] = value]]],
         {"paletteSettings"})

\* the defaults are spread over the current entry, which keeps a
\* backgroundAlt the default does not have
resetPaletteSettingMerged(targetStyle) ==
  Commit([Request EXCEPT
            !.paletteSettings = [paletteSettings EXCEPT
                 ![targetStyle] =
                    IF DEFAULT_PALETTE_SETTINGS[targetStyle].backgroundAlt = Undefined
                    THEN [DEFAULT_PALETTE_SETTINGS[targetStyle] EXCEPT
                            !.backgroundAlt = paletteSettings[targetStyle].backgroundAlt]
                    ELSE DEFAULT_PALETTE_SETTINGS[targetStyle]]],
         {"paletteSettings"})

resetPaletteSetting(targetStyle) ==
  Commit([Request EXCEPT
            !.paletteSettings = [paletteSettings EXCEPT
                 ![targetStyle] = DEFAULT_PALETTE_SETTINGS[targetStyle]]],
         {"paletteSettings"})

updatePhotoAppearanceSetting(key, value) ==
  Commit([Request EXCEPT
            !.photoAppearance = [photoAppearance EXCEPT ![key] = value]],
         {"photoAppearance"})

\* sets the DEFAULT_PHOTO_APPEARANCE object itself
resetPhotoAppearance ==
  Commit([Request EXCEPT !.photoAppearance = DEFAULT_PHOTO_APPEARANCE], {})

RemoveAt(ls, i) == SubSeq(ls, 1, i - 1) \o SubSeq(ls, i + 1, Len(ls))

\* what the handlers of load l draw
onload(l, img, m) ==
  IF l.isCancelled THEN <<>> ELSE PhotoOps(l.closure[1], img, m)

\* a failed image draws nothing
onerrorSilent(l, m) == <<>>

onerror(l, m) ==
  IF l.isCancelled THEN <<>> ELSE drawPaletteBackground(l.closure[1], m)

ImageFired(i) ==
  /\ loads' = RemoveAt(loads, i)
  /\ effect' = IF i = Len(loads) /\ effect.imgPending
               THEN [effect EXCEPT !.imgPending = FALSE]
               ELSE effect
  /\ UNCHANGED <<requestVars, formVars>>

\* the image of load i was decoded, with natural size img
ImgOnload(i, img) ==
  /\ i \in 1..Len(loads)
  /\ canvas' = [canvas EXCEPT !.ops = @ \o onload(loads[i], img, em)]
  /\ ImageFired(i)

\* the failure handler also switches the editor back to the palette mode
ImgOnerrorResetsMode(i) ==
  /\ i \in 1..Len(loads)
  /\ canvas' = [canvas EXCEPT !.ops = @ \o onerror(loads[i], em)]
  /\ loads' = RemoveAt(loads, i)
  /\ effect' = IF i = Len(loads) /\ effect.imgPending
               THEN [effect EXCEPT !.imgPending = FALSE]
               ELSE effect
  /\ backgroundMode' = IF loads[i].isCancelled THEN backgroundMode
                       ELSE "palette"
  /\ UNCHANGED <<verseText, reference, style, size, selectedPhoto,
                 paletteSettings, photoAppearance, formVars>>

\* the image of load i failed to load
ImgOnerror(i) ==
  /\ i \in 1..Len(loads)
  /\ canvas' = [canvas EXCEPT !.ops = @ \o onerror(loads[i], em)]
  /\ ImageFired(i)

\* --------------------------------------------------- verse search actions
\* typing in the reference search box resets the canvas
SetSearchQueryClearsCanvas(q) ==
  /\ effect.mounted
  /\ q # searchQuery
  /\ searchQuery' = q
  /\ canvas' = [canvas EXCEPT !.ops = <<>>]
  /\ UNCHANGED <<requestVars, effect, loads, errorVars, em,
                 isSearching, translation, lookups, photoSearchVars, pageVars,
                 download>>

\* typing in the reference search box
SetSearchQuery(q) ==
  /\ effect.mounted
  /\ q # searchQuery
  /\ searchQuery' = q
  /\ UNCHANGED <<requestVars, canvas, effect, loads, errorVars, em,
                 isSearching, translation, lookups, photoSearchVars, pageVars,
                 download>>

\* Enter in the reference search box: handleVerseSearch(), which leaves the
\* rest of the page alone
SearchKeyDownEnter ==
  /\ effect.mounted
  /\ VerseSearchCall(searchQuery, translation)
  /\ UNCHANGED <<requestVars, canvas, effect, loads, photoError, em,
                 searchQuery, translation, photoSearchVars, pageVars,
                 download>>

\* the search button, disabled while isSearching: the same call
SearchButtonClick == ~isSearching /\ SearchKeyDownEnter

\* onValueChange of the translation Select
TranslationChange(nextTranslation) ==
  LET referenceWithoutTranslation ==
        IF Trim(searchQuery) # <<>> THEN Trim(searchQuery)
        ELSE StripTranslationSuffix(reference)
  IN /\ effect.mounted
     /\ nextTranslation # translation
     /\ translation' = nextTranslation
     /\ IF referenceWithoutTranslation # <<>>
        THEN VerseSearchCall(referenceWithoutTranslation, nextTranslation)
        ELSE UNCHANGED <<searchError, isSearching, lookups>>
     /\ UNCHANGED <<requestVars, canvas, effect, loads, photoError, em,
                    searchQuery, photoSearchVars, pageVars, download>>

\* setIsSearching(false) is the last statement of the try block
VerseLookupResolvesNoFinally(i, o) ==
  /\ i \in 1..Len(lookups)
  /\ o.for = TRANSLATIONS[lookups[i].translation].source
  /\ LET res == VerseResult(lookups[i], o)
     IN IF res.ok
        THEN /\ Render([Request EXCEPT !.verseText = res.verseText,
                                       !.reference = res.reference], {})
             /\ searchQuery' = res.searchQuery
             /\ isSearching' = FALSE
             /\ UNCHANGED searchError
        ELSE /\ searchError' = res.error
             /\ UNCHANGED <<requestVars, canvas, effect, loads, searchQuery,
                            isSearching>>
  /\ lookups' = RemoveAt(lookups, i)
  /\ UNCHANGED <<photoError, em, translation, photoSearchVars, pageVars,
                 download>>

\* the response of lookup i arrives: the rest of the try block, or the catch
\* block, then the finally block
VerseLookupResolves(i, o) ==
  /\ i \in 1..Len(lookups)
  /\ o.for = TRANSLATIONS[lookups[i].translation].source
  /\ LET res == VerseResult(lookups[i], o)
     IN IF res.ok
        THEN /\ Render([Request EXCEPT !.verseText = res.verseText,
                                       !.reference = res.reference], {})
             /\ searchQuery' = res.searchQuery
             /\ UNCHANGED searchError
        ELSE /\ searchError' = res.error
             /\ UNCHANGED <<requestVars, canvas, effect, loads, searchQuery>>
  /\ isSearching' = FALSE
  /\ lookups' = RemoveAt(lookups, i)
  /\ UNCHANGED <<photoError, em, translation, photoSearchVars, pageVars,
                 download>>

\* ----------------------------------------------------------- photo search
\* the value of a results field: an array, the value false, or no field
List(items) == [kind |-> "array", items |-> items]
NotAList == [kind |-> "false", items |-> <<>>]
NoField == [kind |-> "undefined", items |-> <<>>]

\* the messages of handlePhotoSearch and of /api/unsplash/search
PhotoMessages ==
  [EnterKeyword |-> "Enter a keyword to search Unsplash.",
   PhotosUnable |-> "Unable to fetch photos right now.",
   NoPhotosFound |-> "No photos found for that keyword. Try another search.",
   MissingQuery |-> "Missing required query parameter.",
   NotConfigured |-> "Unsplash access key not configured.",
   Failed |-> "Failed to search Unsplash.",
   Unexpected |-> "Unexpected error while reaching Unsplash."]

\* the record the route makes of a photo of the Unsplash answer
Simplify(photo) ==
  LET Coalesce(a, b) == IF a = Undefined THEN b ELSE a   \* a ?? b
  IN [id |-> photo.id,
      description |-> Coalesce(photo.description,
                        Coalesce(photo.alt_description,
                                 <<"U","n","t","i","t","l","e","d">>)),
      photographer |-> Coalesce(photo.user_name,
                                <<"U","n","k","n","o","w","n">>),
      link |-> Coalesce(photo.links_html, <<>>),
      thumb |-> Coalesce(photo.urls_small, <<>>),
      full |-> Coalesce(photo.urls_regular, <<>>)]

\* GET /api/unsplash/search?query=..., with the key configured or not, when
\* api.unsplash.com answers up.  simplified is false when data?.results is
\* no array, and false ?? [] is false.
UnsplashRoute(query, accessKey, up) ==
  LET PhotoResponse(status, error, results) ==
        [status |-> status, error |-> error, results |-> results]
  IN
  IF query = <<>>
  THEN PhotoResponse(400, PhotoMessages.MissingQuery, NoField)
  ELSE IF ~accessKey
  THEN PhotoResponse(500, PhotoMessages.NotConfigured, NoField)
  ELSE IF up.rejects
  THEN PhotoResponse(500, PhotoMessages.Unexpected, NoField)
  ELSE IF ~up.ok THEN PhotoResponse(up.status, PhotoMessages.Failed, NoField)
  ELSE IF up.jsonThrows
  THEN PhotoResponse(500, PhotoMessages.Unexpected, NoField)
  ELSE IF up.isNull \/ up.results.kind # "array"
  THEN PhotoResponse(200, Null, NotAList)
  ELSE PhotoResponse(200, Null,
         List([k \in 1..Len(up.results.items) |->
                 Simplify(up.results.items[k])]))

\* how a call of handlePhotoSearch ends: setPhotoResults and perhaps
\* setPhotoError in the try block, or setPhotoError in the catch block
PhotoResult(search, o) ==
  LET response == UnsplashRoute(search.query, env.UNSPLASH_ACCESS_KEY, o.up)
      PhotosFound(results) ==
        [ok |-> TRUE, results |-> results,
         error |-> IF results.kind = "array" /\ Len(results.items) = 0
                   THEN PhotoMessages.NoPhotosFound ELSE Null]
      PhotosFailed(message) ==
        [ok |-> FALSE, results |-> NoField, error |-> message]
  IN IF o.net = "rejects" THEN PhotosFailed(VerseMessages.FailedToFetch)
     ELSE IF o.net = "gateway" THEN PhotosFailed(PhotoMessages.PhotosUnable)
     ELSE IF ~IsOk(response)
     THEN PhotosFailed(IF response.error = Null
                       THEN PhotoMessages.PhotosUnable
                       ELSE response.error)
     ELSE PhotosFound(IF response.results.kind = "undefined" THEN List(<<>>)
                      ELSE response.results)

\* the page of the mobile grid after photoResults changed: the effect on
\* photoResults resets it when the carousel is rendered (photo panel open,
\* results not of length 0); otherwise the other effect clamps it to the
\* last page, which compares with NaN when the results are no array
MOBILE_UNSPLASH_PAGE_SIZE == 4
PageAfterResults(results, page, mode) ==
  LET n == Len(results.items)
      pages == IF n = 0 THEN 1
               ELSE (n + MOBILE_UNSPLASH_PAGE_SIZE - 1)
                      \div MOBILE_UNSPLASH_PAGE_SIZE
  IN IF mode = "photo" /\ ~(results.kind = "array" /\ n = 0) THEN 0
     ELSE IF results.kind # "array" THEN page
     ELSE IF page > pages - 1 THEN pages - 1
     ELSE page

\* typing in the keyword box of the photo panel
SetPhotoSearchTerm(k) ==
  /\ effect.mounted
  /\ backgroundMode = "photo"
  /\ k # photoSearchTerm
  /\ photoSearchTerm' = k
  /\ UNCHANGED <<requestVars, canvas, effect, loads, errorVars, em,
                 verseSearchVars, photoResults, isPhotoSearching, photoPage,
                 photoSearches, pageVars, download>>

\* the keyword is tested before it is trimmed
PhotoSearchCallUntrimmed ==
  IF photoSearchTerm = <<>>
  THEN /\ photoError' = PhotoMessages.EnterKeyword
       /\ UNCHANGED <<isPhotoSearching, photoSearches>>
  ELSE /\ Len(photoSearches) < MaxLookups
       /\ isPhotoSearching' = TRUE
       /\ photoError' = Null
       /\ photoSearches' = Append(photoSearches,
                                  [query |-> Trim(photoSearchTerm)])

\* handlePhotoSearch up to its await
PhotoSearchCall ==
  IF Trim(photoSearchTerm) = <<>>
  THEN /\ photoError' = PhotoMessages.EnterKeyword
       /\ UNCHANGED <<isPhotoSearching, photoSearches>>
  ELSE /\ Len(photoSearches) < MaxLookups
       /\ isPhotoSearching' = TRUE
       /\ photoError' = Null
       /\ photoSearches' = Append(photoSearches,
                                  [query |-> Trim(photoSearchTerm)])

\* Enter in the keyword box: handlePhotoSearch(), which leaves the rest of
\* the page alone
PhotoKeyDownEnter ==
  /\ effect.mounted
  /\ backgroundMode = "photo"
  /\ PhotoSearchCall
  /\ UNCHANGED <<requestVars, canvas, effect, loads, searchError, em,
                 verseSearchVars, photoSearchTerm, photoResults, photoPage,
                 pageVars, download>>

\* the search button of the photo panel, disabled while isPhotoSearching:
\* the same call
PhotoButtonClick == ~isPhotoSearching /\ PhotoKeyDownEnter

\* the response of photo search i arrives
PhotoSearchResolves(i, o) ==
  /\ i \in 1..Len(photoSearches)
  /\ LET res == PhotoResult(photoSearches[i], o)
     IN IF res.ok
        THEN /\ photoResults' = res.results
             /\ photoPage' = PageAfterResults(res.results, photoPage,
                                               backgroundMode)
             /\ photoError' = IF res.error = Null THEN photoError
                               ELSE res.error
        ELSE /\ photoError' = res.error
             /\ UNCHANGED <<photoResults, photoPage>>
  /\ isPhotoSearching' = FALSE
  /\ photoSearches' = RemoveAt(photoSearches, i)
  /\ UNCHANGED <<requestVars, canvas, effect, loads, searchError, em,
                 verseSearchVars, photoSearchTerm, pageVars, download>>

\* ----------------------------------------------------------- landing page
\* typing in the reference box of the landing page
SetLandingReference(t) ==
  /\ route.path = "/"
  /\ t # landing.reference
  /\ landing' = [landing EXCEPT !.reference = t]
  /\ UNCHANGED <<requestVars, canvas, effect, loads, errorVars, em,
                 verseSearchVars, photoSearchVars, env, route,
                 hasHandledInitialParams, download>>

\* the translation Select of the landing page
SetLandingTranslation(t) ==
  /\ route.path = "/"
  /\ t # landing.translation
  /\ landing' = [landing EXCEPT !.translation = t]
  /\ UNCHANGED <<requestVars, canvas, effect, loads, errorVars, em,
                 verseSearchVars, photoSearchVars, env, route,
                 hasHandledInitialParams, download>>

\* submit of the landing form (the button is disabled while isSubmitting):
\* the empty reference is refused, otherwise router.push opens the editor
\* with the reference and the translation as search parameters
handleSearch ==
  LET trimmedReference == Trim(landing.reference)
  IN /\ route.path = "/"
     /\ ~landing.isSubmitting
     /\ IF trimmedReference = <<>>
        THEN /\ landing' = [landing EXCEPT !.error = VerseMessages.EnterReference]
             /\ UNCHANGED route
        ELSE /\ landing' = [landing EXCEPT !.error = Null,
                                            !.isSubmitting = TRUE]
             /\ route' = [path |-> "/editor",
                          reference |-> trimmedReference,
                          translation |-> landing.translation]
     /\ UNCHANGED <<requestVars, canvas, effect, loads, errorVars, em,
                    verseSearchVars, photoSearchVars, env,
                    hasHandledInitialParams, download>>

\* ------------------------------------------------------------------ export
\* the reference keeps its capitals
DownloadNameNotLowered(ref) ==
  LET slug == ReplaceWhiteSpaceRuns(ref, <<"-">>)
  IN <<"s","t","i","l","l","v","e","r","s","e","-">>
     \o (IF slug = <<>> THEN <<"v","e","r","s","e">> ELSE slug)
     \o <<".","p","n","g">>

\* `stillverse-${reference.replace(/\s+/g, "-").toLowerCase() || "verse"}.png`
DownloadName(ref) ==
  LET slug == toLowerCase(ReplaceWhiteSpaceRuns(ref, <<"-">>))
  IN <<"s","t","i","l","l","v","e","r","s","e","-">>
     \o (IF slug = <<>> THEN <<"v","e","r","s","e">> ELSE slug)
     \o <<".","p","n","g">>

\* canvas.toDataURL("image/png") encodes the pixel buffer of the canvas
toDataURL(c) ==
  [offered |-> TRUE, name |-> <<>>, width |-> c.width, height |-> c.height,
   ops |-> c.ops]

\* click on the download button, or Ctrl/Cmd+S
handleDownload ==
  /\ effect.mounted
  /\ download' = [toDataURL(canvas) EXCEPT !.name = DownloadName(reference)]
  /\ UNCHANGED <<requestVars, canvas, effect, loads, errorVars, em,
                 verseSearchVars, photoSearchVars, pageVars>>

\* --------------------------------------------------------- specifications
\* a canvas element that nothing drew on yet
BlankCanvas == [width |-> 300, height |-> 150, ops |-> <<>>]
Unmounted == [mounted |-> FALSE, branch |-> "none", imgPending |-> FALSE]


\* /editor opened without search parameters
EditorRoute == [path |-> "/editor", reference |-> <<>>, translation |-> Null]
AllKeys == [ESV_API_KEY |-> TRUE, UNSPLASH_ACCESS_KEY |-> TRUE]

\* the search state of the editor, the state of LandingPage and the file
\* offered (none) right after construction
InitialForms ==
  /\ searchError = Null
  /\ photoError = Null
  /\ searchQuery = <<>>
  /\ isSearching = FALSE
  /\ translation = "kjv"
  /\ lookups = <<>>
  /\ photoSearchTerm = <<>>
  /\ photoResults = List(<<>>)
  /\ isPhotoSearching = FALSE
  /\ photoPage = 0
  /\ photoSearches = <<>>
  /\ landing = [reference |-> <<>>, translation |-> "kjv", error |-> Null,
                isSubmitting |-> FALSE]
  /\ hasHandledInitialParams = FALSE
  /\ download = [offered |-> FALSE, name |-> <<>>, width |-> 0,
                 height |-> 0, ops |-> <<>>]

\* the editor right after construction
Init ==
  /\ verseText = InitialVerseText
  /\ reference = InitialReference
  /\ style = "minimal"
  /\ size = "square"
  /\ backgroundMode = "palette"
  /\ selectedPhoto = Null
  /\ paletteSettings = DEFAULT_PALETTE_SETTINGS
  /\ photoAppearance = DEFAULT_PHOTO_APPEARANCE
  /\ canvas = BlankCanvas
  /\ effect = Unmounted
  /\ loads = <<>>
  /\ InitialForms
  /\ env = AllKeys
  /\ route = EditorRoute
  /\ em = 1

Next ==
  \/ Mount
  \/ \E t \in VerseInputs : SetVerseText(t)
  \/ \E t \in ReferenceInputs : SetReference(t)
  \/ \E s \in Styles : SetStyle(s)
  \/ \E s \in Sizes : SetSize(s)
  \/ \E mode \in BackgroundModes : SetBackgroundMode(mode)
  \/ \E photo \in Photos : SelectPhoto(photo)
  \/ \E in \in PaletteInputs : updatePaletteSetting(in[1], in[2], in[3])
  \/ \E s \in Styles : resetPaletteSetting(s)
  \/ \E in \in PhotoAppearanceInputs : updatePhotoAppearanceSetting(in[1], in[2])
  \/ resetPhotoAppearance
  \/ \E i \in 1..MaxLoads, img \in ImageSizes : ImgOnload(i, img)
  \/ \E i \in 1..MaxLoads : ImgOnerror(i)

Spec == Init /\ [][Next]_vars

\* the layout on every short text: the editor is constructed with the verse,
\* the reference and the size already set, and the first render lays them out
TextsUpTo(n) == UNION {[1..k -> Alphabet] : k \in 0..n}

LayoutInit ==
  /\ verseText \in TextsUpTo(MaxLen)
  /\ reference \in ReferenceInputs
  /\ style = "minimal"
  /\ size \in Sizes
  /\ backgroundMode = "palette"
  /\ selectedPhoto = Null
  /\ paletteSettings = DEFAULT_PALETTE_SETTINGS
  /\ photoAppearance = DEFAULT_PHOTO_APPEARANCE
  /\ canvas = BlankCanvas
  /\ effect = Unmounted
  /\ loads = <<>>
  /\ InitialForms
  /\ env = AllKeys
  /\ route = EditorRoute
  /\ em \in EmChoices

LayoutNext == Mount

LayoutSpec == LayoutInit /\ [][LayoutNext]_vars

\* the export: the fields that size the canvas, name the file and pick the
\* branch change, images load or fail, and the picture is downloaded
ExportNext ==
  \/ Mount
  \/ \E t \in ReferenceInputs : SetReference(t)
  \/ \E s \in Sizes : SetSize(s)
  \/ \E mode \in BackgroundModes : SetBackgroundMode(mode)
  \/ SelectPhoto("photoA")
  \/ \E i \in 1..MaxLoads : ImgOnload(i, <<1920, 1080>>)
  \/ \E i \in 1..MaxLoads : ImgOnerror(i)
  \/ handleDownload

ExportSpec == Init /\ [][ExportNext]_vars

\* the palette customiser: any key of any style is set, any style is reset
PaletteNext ==
  \/ Mount
  \/ \E s \in Styles, key \in PaletteKeys :
        updatePaletteSetting(s, key, CustomColor)
  \/ \E s \in Styles : resetPaletteSetting(s)

PaletteSpec == Init /\ [][PaletteNext]_vars

\* the pages right after construction, on a server with one of the
\* environments envs, opened at one of the routes
SearchInit(envs, routes) ==
  /\ verseText = InitialVerseText
  /\ reference = InitialReference
  /\ style = "minimal"
  /\ size = "square"
  /\ backgroundMode = "palette"
  /\ selectedPhoto = Null
  /\ paletteSettings = DEFAULT_PALETTE_SETTINGS
  /\ photoAppearance = DEFAULT_PHOTO_APPEARANCE
  /\ canvas = BlankCanvas
  /\ effect = Unmounted
  /\ loads = <<>>
  /\ InitialForms
  /\ env \in envs
  /\ route \in routes
  /\ em = 1

\* the verse search of the editor, on a server with or without the ESV key
VerseNext ==
  \/ Mount
  \/ \E q \in QueryInputs : SetSearchQuery(q)
  \/ SearchKeyDownEnter
  \/ SearchButtonClick
  \/ \E t \in TranslationInputs : TranslationChange(t)
  \/ \E i \in 1..MaxLookups, o \in VerseOutcomes : VerseLookupResolves(i, o)

VerseSpec ==
  /\ SearchInit({AllKeys, [AllKeys EXCEPT !.ESV_API_KEY = FALSE]},
                {EditorRoute})
  /\ [][VerseNext]_vars

\* the photo search of the editor, on a server with or without the Unsplash
\* key
PhotoNext ==
  \/ Mount
  \/ \E mode \in BackgroundModes : SetBackgroundMode(mode)
  \/ \E k \in KeywordInputs : SetPhotoSearchTerm(k)
  \/ PhotoKeyDownEnter
  \/ PhotoButtonClick
  \/ \E i \in 1..MaxLookups, o \in PhotoOutcomes : PhotoSearchResolves(i, o)

PhotoSpec ==
  /\ SearchInit({AllKeys, [AllKeys EXCEPT !.UNSPLASH_ACCESS_KEY = FALSE]},
                {EditorRoute})
  /\ [][PhotoNext]_vars

\* the three search forms: the visitor starts on the landing page or in the
\* editor, types, submits, and the requests that left are answered by the
\* routes and APIs, with a failure or with the text of the passage
FormsNext ==
  \/ \E t \in QueryInputs : SetLandingReference(t)
  \/ \E t \in TranslationInputs : SetLandingTranslation(t)
  \/ handleSearch
  \/ Mount
  \/ \E q \in QueryInputs : SetSearchQuery(q)
  \/ SearchKeyDownEnter
  \/ SearchButtonClick
  \/ \E i \in 1..MaxLookups,
        o \in {o \in VerseOutcomes :
                /\ o.net = "route"
                /\ \/ /\ o.for = "bible-api" /\ ~o.bible.rejects
                      /\ o.bible.ok => /\ o.bible.verses.isArray
                                       /\ Len(o.bible.verses.items) = 2
                   \/ /\ o.for = "esv-api" /\ o.esv.ok /\ o.esv.isObject
                      /\ o.esv.canonical = Undefined
                      /\ o.esv.passages.isArray} :
        VerseLookupResolves(i, o)
  \/ \E mode \in BackgroundModes : SetBackgroundMode(mode)
  \/ \E k \in KeywordInputs : SetPhotoSearchTerm(k)
  \/ PhotoKeyDownEnter
  \/ PhotoButtonClick
  \/ \E i \in 1..MaxLookups,
        o \in {o \in PhotoOutcomes :
                /\ o.net = "route" /\ ~o.up.rejects
                /\ o.up.ok => /\ o.up.results.kind = "array"
                              /\ Len(o.up.results.items) = 1} :
        PhotoSearchResolves(i, o)

FormsSpec ==
  /\ SearchInit({AllKeys}, {[EditorRoute EXCEPT !.path = "/"], EditorRoute})
  /\ [][FormsNext]_vars

\* the editor before its first render, holding one of the requests: what
\* was typed and picked is in place when the canvas is first rendered
Holding(requests) ==
  /\ \E r \in requests :
        /\ verseText = r.verseText
        /\ reference = r.reference
        /\ style = r.style
        /\ size = r.size
        /\ backgroundMode = r.backgroundMode
        /\ selectedPhoto = r.selectedPhoto
        /\ paletteSettings = r.paletteSettings
        /\ photoAppearance = r.photoAppearance
  /\ canvas = BlankCanvas
  /\ effect = Unmounted
  /\ loads = <<>>
  /\ InitialForms
  /\ env = AllKeys
  /\ route = EditorRoute
  /\ em = 12

\* the file name: the editor holds any short reference label of capitals,
\* small letters, spaces and line breaks, and the picture is downloaded
NameNext == Mount \/ handleDownload

NameSpec ==
  /\ Holding([verseText : {<<"a">>},
              reference : UNION {[1..k -> {"A", "b", " ", "\n"}] :
                                   k \in 0..MaxRef},
              style : {"minimal"}, size : {"square"},
              backgroundMode : {"palette"}, selectedPhoto : {Null},
              paletteSettings : {DEFAULT_PALETTE_SETTINGS},
              photoAppearance : {DEFAULT_PHOTO_APPEARANCE}])
  /\ [][NameNext]_vars

\* the render as a function of the request: the editor holds any request of
\* a small set of values of each field (a two-word verse, which the font
\* wraps in the story format; palettes as built in, without the optional
\* backgroundAlt of the gradient, and customised throughout; photo
\* appearances with and without an overlay), it is rendered, and its image
\* loads or fails
RenderNext ==
  \/ Mount
  \/ \E i \in 1..MaxLoads, img \in ImageSizes : ImgOnload(i, img)
  \/ \E i \in 1..MaxLoads : ImgOnerror(i)

RenderSpec ==
  /\ Holding([verseText : {<<"a", " ", "a">>},
              reference : ReferenceInputs,
              style : Styles, size : Sizes,
              backgroundMode : BackgroundModes,
              selectedPhoto : {Null, "photoA"},
              paletteSettings :
                {DEFAULT_PALETTE_SETTINGS,
                 [DEFAULT_PALETTE_SETTINGS EXCEPT
                    !.gradient.backgroundAlt = Undefined],
                 [s \in Styles |->
                    [background |-> CustomColor,
                     backgroundAlt |-> <<"#","6","5","4","3","2","1">>,
                     text |-> <<"#","a","b","c","d","e","f">>]]},
              photoAppearance :
                {DEFAULT_PHOTO_APPEARANCE,
                 [photoOpacity |-> 50, overlayColor |-> CustomColor,
                  overlayOpacity |-> 90,
                  textColor |-> <<"#","a","b","c","d","e","f">>],
                 [DEFAULT_PHOTO_APPEARANCE EXCEPT !.photoOpacity = 30,
                                                  !.overlayOpacity = 0]}])
  /\ [][RenderNext]_vars

\* the search panels of the editor: the photo panel is opened, references
\* and keywords are typed, the translation is changed, lookups and photo searches run and are
\* answered by the routes, with a verse, with photos or with a failure
PanelsNext ==
  \/ Mount
  \/ SetSearchQuery(<<"J","n"," ","1",":","1">>)
  \/ SearchKeyDownEnter
  \/ \E t \in TranslationInputs : TranslationChange(t)
  \/ \E i \in 1..MaxLookups,
        o \in {o \in VerseOutcomes :
                /\ o.net = "route"
                /\ \/ /\ o.for = "bible-api" /\ ~o.bible.rejects
                      /\ o.bible.ok => /\ o.bible.verses.isArray
                                       /\ Len(o.bible.verses.items) = 2
                   \/ /\ o.for = "esv-api" /\ o.esv.ok /\ o.esv.isObject
                      /\ o.esv.canonical = Undefined
                      /\ o.esv.passages.isArray} :
        VerseLookupResolves(i, o)
  \/ SetBackgroundMode("photo")
  \/ SetPhotoSearchTerm(<<"s","k","y">>)
  \/ PhotoKeyDownEnter
  \/ \E i \in 1..MaxLookups,
        o \in {o \in PhotoOutcomes :
                /\ o.net = "route" /\ ~o.up.rejects
                /\ o.up.ok => /\ o.up.results.kind = "array"
                              /\ Len(o.up.results.items) = 1} :
        PhotoSearchResolves(i, o)

PanelsSpec == SearchInit({AllKeys}, {EditorRoute}) /\ [][PanelsNext]_vars

\* the shared link: the editor is opened with or without a reference and
\* with no, a known or an unknown translation in the URL; the effect on the
\* search parameters runs again after renders, the reference and the
\* translation are changed by hand, and the lookups are answered
LinkNext ==
  \/ Mount
  \/ ParamsEffectRerun
  \/ SetSearchQuery(<<"J","n"," ","1",":","1">>)
  \/ SearchKeyDownEnter
  \/ \E t \in TranslationInputs : TranslationChange(t)
  \/ \E i \in 1..MaxLookups,
        o \in {o \in VerseOutcomes :
                /\ o.net = "route"
                /\ \/ /\ o.for = "bible-api" /\ ~o.bible.rejects
                      /\ o.bible.ok => /\ o.bible.verses.isArray
                                       /\ Len(o.bible.verses.items) = 2
                   \/ /\ o.for = "esv-api" /\ o.esv.ok /\ o.esv.isObject
                      /\ o.esv.canonical = Undefined
                      /\ o.esv.passages.isArray} :
        VerseLookupResolves(i, o)

LinkSpec ==
  /\ SearchInit({AllKeys},
                {[path |-> "/editor", reference |-> r, translation |-> t] :
                   r \in {<<>>, BlankQuery, <<"P","s"," ","2","3">>},
                   t \in {Null, "esv", "web", "niv"}})
  /\ [][LinkNext]_vars

\* the two settings objects: a story picture of any style, in either mode,
\* is rendered, its colours and its photo appearance are edited and reset,
\* and its image loads or fails
SettingsNext ==
  \/ Mount
  \/ \E in \in PaletteInputs : updatePaletteSetting(in[1], in[2], in[3])
  \/ \E s \in Styles : resetPaletteSetting(s)
  \/ \E in \in PhotoAppearanceInputs \cup {<<"textColor", CustomColor>>} :
        updatePhotoAppearanceSetting(in[1], in[2])
  \/ resetPhotoAppearance
  \/ \E i \in 1..MaxLoads, img \in ImageSizes : ImgOnload(i, img)
  \/ \E i \in 1..MaxLoads : ImgOnerror(i)

SettingsSpec ==
  /\ Holding([verseText : {<<"a", " ", "a">>}, reference : ReferenceInputs,
              style : Styles, size : {"story"},
              backgroundMode : BackgroundModes,
              selectedPhoto : {Null, "photoA"},
              paletteSettings : {DEFAULT_PALETTE_SETTINGS},
              photoAppearance : {DEFAULT_PHOTO_APPEARANCE}])
  /\ [][SettingsNext]_vars

\* ------------------------------------------------------------ properties
\* load i belongs to the effect that is mounted now
IsMountedLoad(i) == effect.imgPending /\ i = Len(loads)

\* the step is the firing of onload or of onerror of load i
Fires(i) == (\E img \in ImageSizes : ImgOnload(i, img)) \/ ImgOnerror(i)

Dimensions == SIZE_DIMENSIONS[size]

\* the drawings a finished render of the current request can leave
PaletteComposition == drawPaletteBackground(Request, em)
PhotoCompositions == {PhotoOps(Request, img, em) : img \in ImageSizes}

IsBackgroundOp(o) == o.op \in {"fillRect", "drawImage", "speckle"}

\* a background covering the whole surface, then the text layer
IsComplete(ops) ==
  /\ ops # <<>>
  /\ IsBackgroundOp(ops[1])
  /\ \E j \in 1..Len(ops) : ops[j].op = "fillText"

\* C1: once the effect that started a photo load is torn down (a field of the
\* request changed), the firing of that load's onload or onerror draws
\* nothing: the canvas is the same after it as before.
StaleLoadIsNoOp ==
  [][\A i \in 1..Len(loads) :
       Fires(i) /\ ~IsMountedLoad(i) => canvas' = canvas]_vars

\* C1 witness: a torn-down load is still pending next to the load of the
\* render that replaced it
StaleLoadPending ==
  /\ effect.imgPending
  /\ \E i \in 1..Len(loads) : ~IsMountedLoad(i) /\ loads[i].isCancelled

\* what the surface can show for the current request: cleared while its
\* photo is loading, else a composition of the current request
SurfaceIsOfRequest ==
  /\ canvas.width = Dimensions.width
  /\ canvas.height = Dimensions.height
  /\ IF effect.imgPending
     THEN /\ canvas.ops = <<>>
          /\ loads[Len(loads)].closure = <<Request>>
     ELSE IF effect.branch = "photo"
     THEN canvas.ops \in PhotoCompositions \cup {PaletteComposition}
     ELSE canvas.ops = PaletteComposition

\* C2: every change of a request field cancels the render before it and
\* starts exactly one new render (at most one new load, every older load
\* cancelled), and what is on the surface is always of the current request.
EveryChangeRendersOnce ==
  /\ [](effect.mounted => SurfaceIsOfRequest)
  /\ [][effect.mounted /\ Request' # Request =>
         /\ \A i \in 1..Len(loads) : loads'[i].isCancelled
         /\ Len(loads') = Len(loads) + (IF effect'.branch = "photo" THEN 1 ELSE 0)
         /\ effect'.branch = "photo" => ~loads'[Len(loads')].isCancelled
         /\ canvas'.ops \in {<<>>, drawPaletteBackground(Request', em)}]_vars

\* C2 witness: after several changes, one of them made while a photo was
\* loading, the photo composition of the changed request is on the surface
ChangedRequestPainted ==
  /\ effect.branch = "photo" /\ ~effect.imgPending
  /\ canvas.ops \in PhotoCompositions
  /\ verseText # InitialVerseText
  /\ photoAppearance # DEFAULT_PHOTO_APPEARANCE
  /\ \E i \in 1..Len(loads) : loads[i].isCancelled

\* C3: on the surface the background comes first and nothing but text is
\* drawn after the first text.
BackgroundBeforeText ==
  /\ canvas.ops # <<>> => IsBackgroundOp(canvas.ops[1])
  /\ \A i, j \in 1..Len(canvas.ops) :
       i < j /\ canvas.ops[i].op = "fillText" => canvas.ops[j].op = "fillText"

\* C3 witness: a photo, its overlay and the text were drawn while an older
\* load is still to fire
PhotoThenText ==
  /\ Len(canvas.ops) >= 3
  /\ canvas.ops[1].op = "drawImage"
  /\ canvas.ops[2].op = "fillRect"
  /\ canvas.ops[Len(canvas.ops)].op = "fillText"
  /\ loads # <<>>

\* C4: at most one pending load has isCancelled unset, and it is the load
\* of the mounted render, started for the current request.
SingleWriter ==
  /\ Cardinality({i \in 1..Len(loads) : ~loads[i].isCancelled}) <= 1
  /\ \A i \in 1..Len(loads) :
       ~loads[i].isCancelled =>
         IsMountedLoad(i) /\ loads[i].closure = <<Request>>

\* C4 witness: two loads are pending, one of them cancelled
TwoLoadsOneLive ==
  /\ Len(loads) >= 2
  /\ \E i, j \in 1..Len(loads) : loads[i].isCancelled /\ ~loads[j].isCancelled

\* C5 as stated: the photo path is taken exactly when backgroundMode is
\* photo.
PathByModeAlone ==
  effect.mounted => (effect.branch = "photo" <=> backgroundMode = "photo")

\* C5 amended: every render takes one of the two paths; the photo path
\* exactly when backgroundMode is photo and a photo is selected, the palette
\* path otherwise; in palette mode the drawing is the same whatever
\* selectedPhoto is.
PathByModeAndPhoto ==
  effect.mounted =>
    /\ effect.branch \in {"palette", "photo"}
    /\ effect.branch = "photo" <=>
         (backgroundMode = "photo" /\ selectedPhoto # Null)
    /\ effect.branch = "palette" => ~effect.imgPending
    /\ backgroundMode = "palette" =>
         \A p \in Photos \cup {Null} :
           canvas.ops = drawPaletteBackground(
                          [Request EXCEPT !.selectedPhoto = p], em)

\* C5 witness: palette mode is drawn while a photo is selected
PaletteWithPhotoSelected ==
  /\ effect.mounted
  /\ backgroundMode = "palette"
  /\ selectedPhoto # Null
  /\ canvas.ops # <<>>

\* C6: when the image of the mounted render fails, the palette of the
\* current style and the text in its colour are drawn and no error message
\* is set; a mounted render whose image has fired shows a complete
\* composition.
FailedLoadFallsBackToPalette ==
  /\ [][\A i \in 1..Len(loads) :
          ImgOnerror(i) /\ IsMountedLoad(i) =>
            /\ canvas'.ops = PaletteComposition
            /\ canvas'.ops[1].fillStyle.c0 = paletteSettings[style].background
            /\ canvas'.ops[Len(canvas'.ops)].fillStyle.c0 \in
                 {paletteSettings[style].text,
                  paletteSettings[style].text \o <<"C","C">>}
            /\ UNCHANGED errorVars]_vars
  /\ [](effect.mounted /\ ~effect.imgPending => IsComplete(canvas.ops))

\* C6 witness: the photo render ended with the palette of a customised style
FallbackPainted ==
  /\ effect.branch = "photo" /\ ~effect.imgPending
  /\ canvas.ops = PaletteComposition
  /\ paletteSettings[style] # DEFAULT_PALETTE_SETTINGS[style]

\* the fillText calls of the verse lines, and of the reference
VerseLineOps ==
  SelectSeq(canvas.ops,
            LAMBDA o : o.op = "fillText" /\ o.font = FontSize(size))
ReferenceOps ==
  SelectSeq(canvas.ops,
            LAMBDA o : o.op = "fillText" /\ o.font = RefFontSize(size))

\* one word in the sense of the specification: no white space inside
IsSingleWord(t) == t # <<>> /\ \A k \in 1..Len(t) : ~IsWhiteSpace(t[k])

\* C7: no drawn verse line is wider than 0.8 * surface width, except a line
\* that is one single word.
WrappedLinesFit ==
  effect.mounted =>
    \A i \in 1..Len(VerseLineOps) :
      \/ 10 * measureText(VerseLineOps[i].text, FontSize(size), em)
           <= 8 * canvas.width
      \/ IsSingleWord(VerseLineOps[i].text)

\* C8: an empty verse text gives no line and block height 0, and the
\* reference is drawn at height/2 + 80.
EmptyVerseHasNoLines ==
  effect.mounted /\ verseText = <<>> =>
    /\ Len(VerseLineOps) = 0
    /\ reference # <<>> =>
         /\ Len(ReferenceOps) = 1
         /\ ReferenceOps[1].y = canvas.height \div 2 + 80

\* C9: with lineHeight = fontSize * 1.5 and n >= 1 lines, line i (from 0) is
\* drawn at startY + (i + 0.5) * lineHeight where startY + n * lineHeight / 2
\* = height / 2 (all equations doubled).
VerticallyCentered ==
  effect.mounted =>
    LET n == Len(VerseLineOps)
        lineHeight == (FontSize(size) * 3) \div 2
    IN /\ n >= 1
       /\ \A i \in 1..n :
            2 * VerseLineOps[i].y
              = (canvas.height - n * lineHeight) + (2 * (i - 1) + 1) * lineHeight

\* C9 witness: a text that wraps into several lines was drawn
SeveralLinesDrawn ==
  /\ effect.mounted
  /\ Len(VerseLineOps) >= 3
  /\ \E i \in 1..Len(VerseLineOps) : VerseLineOps[i].text # <<>>

\* C11: whenever the effect has run, the pixel buffer of the canvas has
\* exactly the SIZE_DIMENSIONS entry of the active size, and every download
\* encodes that buffer (its width, height and drawing), which is larger than
\* the box the preview is laid out in.
NativeResolution ==
  /\ [](effect.mounted =>
          /\ canvas.width = SIZE_DIMENSIONS[size].width
          /\ canvas.height = SIZE_DIMENSIONS[size].height)
  /\ [][download' # download =>
          /\ download'.width = SIZE_DIMENSIONS[size].width
          /\ download'.height = SIZE_DIMENSIONS[size].height
          /\ download'.ops = canvas.ops
          /\ download'.width > PREVIEW_BOUNDS[size].maxWidth
          /\ download'.height > PREVIEW_BOUNDS[size].maxHeight]_vars

\* a picture in the wide format was downloaded after the size was changed
WideExported ==
  /\ download.offered
  /\ size = "wide"
  /\ download.width = 1920 /\ download.height = 1080
  /\ download.ops = canvas.ops /\ canvas.ops # <<>>

\* C12: after any sequence of updatePaletteSetting and resetPaletteSetting
\* calls, paletteSettings has an entry for each of the four styles, and each
\* entry has a background and a text colour (a colour as the colour inputs
\* give it: # and six digits).
PaletteSettingsTotal ==
  LET IsColor(c) == c # Undefined /\ Len(c) = 7 /\ c[1] = "#"
  IN /\ DOMAIN paletteSettings = Styles
     /\ \A s \in Styles :
           /\ IsColor(paletteSettings[s].background)
           /\ IsColor(paletteSettings[s].text)

\* every key of one style was set, another style is at its defaults
PaletteCustomised ==
  /\ effect.mounted
  /\ \A key \in PaletteKeys : paletteSettings["paper"][key] = CustomColor
  /\ paletteSettings["night"].text = CustomColor
  /\ paletteSettings["minimal"] = DEFAULT_PALETTE_SETTINGS["minimal"]

\* C13: resetPaletteSetting(style) leaves exactly the built-in default of
\* that style, without a backgroundAlt where the default has none, whatever
\* was set before, and the settings of the other styles are not changed.
ResetRestoresDefault ==
  [][\A s \in Styles :
       resetPaletteSetting(s) =>
         /\ paletteSettings'[s] = DEFAULT_PALETTE_SETTINGS[s]
         /\ DEFAULT_PALETTE_SETTINGS[s].backgroundAlt = Undefined =>
               paletteSettings'[s].backgroundAlt = Undefined
         /\ \A t \in Styles \ {s} : paletteSettings'[t] = paletteSettings[t]]_vars

\* a style whose default has no backgroundAlt is at its default while two
\* other styles carry a backgroundAlt that was set
ResetAmongCustomised ==
  /\ effect.mounted
  /\ paletteSettings["minimal"] = DEFAULT_PALETTE_SETTINGS["minimal"]
  /\ paletteSettings["paper"].backgroundAlt = CustomColor
  /\ paletteSettings["gradient"].background = CustomColor
  /\ paletteSettings["night"] # DEFAULT_PALETTE_SETTINGS["night"]

\* C14: the first run of the render effect and the onload and onerror
\* handlers of its photo load change no field of the composition request; a
\* field of the request changes only in a step of a setter of that field.
RenderLeavesRequest ==
  /\ [][(Mount \/ \E i \in 1..MaxLoads : Fires(i)) =>
          UNCHANGED requestVars]_vars
  /\ [][/\ verseText' # verseText => SetVerseText(verseText')
        /\ reference' # reference => SetReference(reference')
        /\ style' # style => SetStyle(style')
        /\ size' # size => SetSize(size')
        /\ selectedPhoto' # selectedPhoto => SelectPhoto(selectedPhoto')
        /\ backgroundMode' # backgroundMode =>
              \/ SetBackgroundMode(backgroundMode')
              \/ SelectPhoto(selectedPhoto')
        /\ paletteSettings' # paletteSettings =>
              \/ \E in \in PaletteInputs :
                    updatePaletteSetting(in[1], in[2], in[3])
              \/ \E st \in Styles : resetPaletteSetting(st)
        /\ photoAppearance' # photoAppearance =>
              \/ \E in \in PhotoAppearanceInputs :
                    updatePhotoAppearanceSetting(in[1], in[2])
              \/ resetPhotoAppearance]_vars

\* a photo load of a request that setters changed has painted and the
\* request is still what the setters made it
PaintedRequestKept ==
  /\ effect.mounted /\ ~effect.imgPending /\ loads = <<>>
  /\ backgroundMode = "photo" /\ selectedPhoto = "photoB"
  /\ verseText = EmptyText /\ size = "story"
  /\ canvas.ops \in PhotoCompositions

\* C15: switching backgroundMode away from palette and back, with no setter
\* called in between, leaves the palette rendering that was there before:
\* in palette mode the canvas holds the palette composition of the request
\* (the speckle of the paper style is one drawing, its grain is not
\* compared); that composition does not depend on the mode, the photo or the
\* photo appearance; the switch away and the load events in photo mode change
\* nothing it depends on; the switch back paints exactly it.
ModeRoundTrip ==
  /\ [](effect.mounted /\ backgroundMode = "palette" =>
          canvas = [width |-> Dimensions.width, height |-> Dimensions.height,
                    ops |-> PaletteComposition])
  /\ [](PaletteComposition =
          drawPaletteBackground(
            [Request EXCEPT !.backgroundMode = "photo",
                            !.selectedPhoto = Null,
                            !.photoAppearance = DEFAULT_PHOTO_APPEARANCE], em))
  /\ [][(SetBackgroundMode("photo") \/ \E i \in 1..MaxLoads : Fires(i)) =>
          UNCHANGED <<verseText, reference, style, size, paletteSettings,
                      em>>]_vars
  /\ [][SetBackgroundMode("palette") =>
          canvas' = [width |-> Dimensions.width, height |-> Dimensions.height,
                     ops |-> PaletteComposition]]_vars

\* the mode was switched back to palette while the photo of the photo mode
\* was still loading; the canvas shows the palette composition
SwitchedBackToPalette ==
  /\ effect.mounted /\ backgroundMode = "palette" /\ selectedPhoto # Null
  /\ loads # <<>> /\ \A i \in 1..Len(loads) : loads[i].isCancelled
  /\ style = "paper"
  /\ canvas.ops = PaletteComposition


\* C16: the arrival of the response of a verse lookup is one transition that
\* ends the lookup: on an answer with text, verseText, reference (the
\* answer's reference and the label of the translation) and searchQuery are
\* set and the error message is left alone; on any failure (the network
\* failed, the status is not ok, the body cannot be read, or it carries no
\* text) only the error message is set, and verseText, reference,
\* searchQuery and the canvas keep their values; in both cases isSearching
\* is cleared and the lookup is no longer pending.
LookupEndsOnce ==
  [][\A i \in 1..MaxLookups, o \in VerseOutcomes :
       VerseLookupResolves(i, o) =>
         LET response == ESVRoute(lookups[i].query, env.ESV_API_KEY, o.esv)
             AnswerFails ==
               IF o.for = "esv-api"
               THEN \/ o.net # "route"
                    \/ ~IsOk(response)
                    \/ IsFalsy(response.text)
               ELSE \/ o.bible.rejects \/ ~o.bible.ok \/ o.bible.jsonThrows
                    \/ o.bible.isNull \/ IsFalsy(o.bible.text)
                    \/ \E k \in 1..Len(o.bible.verses.items) :
                          o.bible.verses.items[k].text = Undefined
             given == IF o.for = "esv-api" THEN response.reference
                      ELSE o.bible.reference
             AnswerReference == IF given = Undefined THEN lookups[i].query
                                ELSE given
             FailureMessages ==
               {VerseMessages.EsvUnable, VerseMessages.EsvNoText,
                VerseMessages.BibleNotFound, VerseMessages.BibleNoText,
                VerseMessages.FailedToFetch, VerseMessages.JsonSyntaxError,
                VerseMessages.TrimTypeError, EsvMessages.NotConfigured,
                EsvMessages.UpstreamFailed, EsvMessages.NoPassage,
                EsvMessages.Unexpected}
         IN
         /\ lookups' = RemoveAt(lookups, i)
         /\ isSearching' = FALSE
         /\ IF AnswerFails
            THEN /\ searchError' \in FailureMessages
                 /\ UNCHANGED <<requestVars, searchQuery, canvas, effect,
                                loads>>
            ELSE /\ searchQuery' = AnswerReference
                 /\ reference' = searchQuery' \o <<" ", "(">>
                                    \o TRANSLATIONS[lookups[i].translation].label
                                    \o <<")">>
                 /\ verseText' \in {<<"a"," ","b">>, <<"a"," ","c">>, <<>>}
                 /\ searchError' = searchError
         /\ UNCHANGED <<translation, photoError, photoSearchVars, pageVars,
                        download>>]_vars

\* a lookup has succeeded and a later one has failed: the verse of the first
\* is still shown, with the error of the second
FoundThenFailed ==
  /\ lookups = <<>> /\ ~isSearching
  /\ searchError = VerseMessages.BibleNotFound
  /\ verseText = <<"a"," ","c">>
  /\ reference = CanonicalReference \o <<" ","(","K","J","V",")">>
  /\ searchQuery = CanonicalReference

\* C18: on a server without the ESV key, the route answers a lookup of the
\* ESV translation with the configuration error, whatever api.esv.org
\* would answer; that error is not the not-found answer (another message,
\* another status); the editor shows exactly that message, and verseText,
\* reference and the canvas are as they were before the lookup was issued
\* (issuing a lookup changes none of them either).
EsvKeyMissingReported ==
  /\ [][\A i \in 1..MaxLookups, o \in VerseOutcomes :
          (/\ VerseLookupResolves(i, o)
           /\ TRANSLATIONS[lookups[i].translation].source = "esv-api"
           /\ o.net = "route"
           /\ ~env.ESV_API_KEY) =>
            LET response == ESVRoute(lookups[i].query, env.ESV_API_KEY, o.esv)
            IN /\ response.error = EsvMessages.NotConfigured
               /\ ~IsOk(response)
               /\ response.error # EsvMessages.NoPassage
               /\ response.status # 404
               /\ searchError' = response.error
               /\ UNCHANGED <<verseText, reference, canvas>>]_vars
  /\ [][Len(lookups') > Len(lookups) /\ effect.mounted =>
          UNCHANGED <<verseText, reference, canvas>>]_vars

\* the ESV translation was picked on a server without the key, the lookup
\* has ended, and the editor shows the configuration message over the verse
\* it had
ConfigurationMessageShown ==
  /\ ~env.ESV_API_KEY /\ translation = "esv"
  /\ lookups = <<>> /\ ~isSearching
  /\ searchError = EsvMessages.NotConfigured
  /\ verseText = InitialVerseText /\ reference = InitialReference
  /\ canvas.ops = PaletteComposition

\* the operations awaiting their response or their image, with the state
\* each will write when it ends; a cancelled image load writes nothing
PendingWrites ==
  LET LookupWrites ==
        {"verseText", "reference", "searchQuery", "searchError",
         "isSearching", "canvas"}
      PhotoSearchWrites ==
        {"photoResults", "photoError", "isPhotoSearching", "photoPage"}
      LoadWrites == {"canvas"}
  IN [op \in ({"lookup"} \X (1..Len(lookups)))
             \cup ({"photoSearch"} \X (1..Len(photoSearches)))
             \cup ({"load"} \X (1..Len(loads))) |->
        IF op[1] = "lookup" THEN LookupWrites
        ELSE IF op[1] = "photoSearch" THEN PhotoSearchWrites
        ELSE IF loads[op[2]].isCancelled THEN {} ELSE LoadWrites]

\* C19: no two pending asynchronous operations (verse lookups, photo
\* searches, photo image loads) write the same piece of state, the canvas
\* excepted.
NoSharedWrites ==
  \A a, b \in DOMAIN PendingWrites :
    a # b => (PendingWrites[a] \cap PendingWrites[b]) \subseteq {"canvas"}

\* C17: submitting an empty or white-space-only query (Enter or the button
\* of the reference search box, Enter or the button of the photo keyword
\* box, the form of the landing page) sets the inline error message of that
\* form and changes nothing else: no request leaves, the route stays, and the
\* verse, the reference, the photo results, the loading flags, the canvas
\* and the other error message are as before.
EmptyQueryRefused ==
  /\ [][(SearchKeyDownEnter \/ SearchButtonClick) /\ Trim(searchQuery) = <<>>
          => /\ searchError' = VerseMessages.EnterReference
             /\ UNCHANGED <<requestVars, canvas, effect, loads, photoError, em,
                            verseSearchVars, photoSearchVars, pageVars,
                            download>>]_vars
  /\ [][(PhotoKeyDownEnter \/ PhotoButtonClick)
          /\ Trim(photoSearchTerm) = <<>>
          => /\ photoError' = PhotoMessages.EnterKeyword
             /\ UNCHANGED <<requestVars, canvas, effect, loads, searchError,
                            em, verseSearchVars, photoSearchVars, pageVars,
                            download>>]_vars
  /\ [][handleSearch /\ Trim(landing.reference) = <<>>
          => /\ landing' = [landing EXCEPT
                             !.error = VerseMessages.EnterReference]
             /\ UNCHANGED <<requestVars, canvas, effect, loads, errorVars, em,
                            verseSearchVars, photoSearchVars, env, route,
                            hasHandledInitialParams, download>>]_vars

\* in the editor, after a verse and photos were found, a white-space-only
\* reference and a white-space-only keyword were submitted: both messages
\* are shown, nothing is pending, the verse and the photos found are kept
BlankQueriesRefused ==
  /\ searchQuery = BlankQuery /\ searchError = VerseMessages.EnterReference
  /\ photoSearchTerm = BlankQuery /\ photoError = PhotoMessages.EnterKeyword
  /\ lookups = <<>> /\ photoSearches = <<>>
  /\ ~isSearching /\ ~isPhotoSearching
  /\ verseText = <<"a"," ","c">>
  /\ Len(photoResults.items) = 1

\* C20: every response the photo search route can give to a pending search
\* with an ok status has a results field that is a list, whatever
\* api.unsplash.com answers, and photoResults is a list in every state of
\* the editor.
PhotoResultsIsList ==
  /\ \A i \in 1..Len(photoSearches), up \in UnsplashAnswers :
        LET response == UnsplashRoute(photoSearches[i].query,
                                      env.UNSPLASH_ACCESS_KEY, up)
        IN IsOk(response) => response.results.kind = "array"
  /\ photoResults.kind = "array"

\* C21: the name of the downloaded file is "stillverse-", then the word
\* "verse" when the reference is empty and otherwise the reference with
\* every letter in lower case and every run of white space replaced by one
\* hyphen (character i of the reference lands at the position that counts
\* the characters and the starts of runs up to i), then ".png".
ExportNameFromReference ==
  [][handleDownload =>
       LET name == download'.name
           stem == SubSeq(name, 12, Len(name) - 4)
           ref == reference
           startsRun(j) == IsWhiteSpace(ref[j])
                           /\ (j = 1 \/ ~IsWhiteSpace(ref[j - 1]))
           at(i) == Cardinality({j \in 1..i :
                                   ~IsWhiteSpace(ref[j]) \/ startsRun(j)})
           lower(c) == IF \E k \in 1..26 : CharClass.upper[k] = c
                       THEN CharClass.lower[CHOOSE k \in 1..26 :
                                              CharClass.upper[k] = c]
                       ELSE c
       IN /\ SubSeq(name, 1, 11)
               = <<"s","t","i","l","l","v","e","r","s","e","-">>
          /\ SubSeq(name, Len(name) - 3, Len(name)) = <<".","p","n","g">>
          /\ IF ref = <<>> THEN stem = <<"v","e","r","s","e">>
             ELSE /\ Len(stem) = at(Len(ref))
                  /\ \A i \in 1..Len(ref) :
                        stem[at(i)] = IF IsWhiteSpace(ref[i]) THEN "-"
                                      ELSE lower(ref[i])]_vars

\* a reference with a capital and a run of two white spaces was exported
RunOfSpacesExported ==
  /\ reference = <<"A", " ", "\n", "b">>
  /\ download.offered
  /\ download.name = <<"s","t","i","l","l","v","e","r","s","e","-",
                       "a","-","b",".","p","n","g">>

\* C22: when the image of the mounted render loads, the canvas, blank until
\* then, receives in this order: the image, cover-fitted (it covers the
\* surface, one side exactly, in its own proportions) and centred, drawn
\* with global alpha photoOpacity; every later call runs with the global
\* alpha restored; a fill of the whole surface with overlayColor at
\* overlayOpacity if and only if overlayOpacity > 0; then the text, and
\* nothing else, in photoAppearance.textColor.
PhotoRenderOrder ==
  [][\A i \in 1..MaxLoads, img \in ImageSizes :
       ImgOnload(i, img) /\ ~loads[i].isCancelled =>
         LET ops == canvas'.ops
             W == SIZE_DIMENSIONS[size].width
             H == SIZE_DIMENSIONS[size].height
             a == photoAppearance
             k == IF a.overlayOpacity > 0 THEN 2 ELSE 1
             skew == ops[1].w * img[2] - ops[1].h * img[1]
         IN /\ canvas.ops = <<>>
            /\ Len(ops) > k
            /\ ops[1].op = "drawImage"
            /\ ops[1].image.full = selectedPhoto
            /\ ops[1].globalAlpha = a.photoOpacity
            /\ ops[1].w >= W /\ ops[1].h >= H
            /\ ops[1].w = W \/ ops[1].h = H
            /\ skew < img[1] + img[2] /\ 0 - skew < img[1] + img[2]
            /\ 2 * ops[1].x + ops[1].w - W \in {0 - 1, 0}
            /\ 2 * ops[1].y + ops[1].h - H \in {0 - 1, 0}
            /\ \A j \in 2..Len(ops) : ops[j].globalAlpha = 100
            /\ a.overlayOpacity > 0 <=> ops[2].op = "fillRect"
            /\ a.overlayOpacity > 0 =>
                 /\ ops[2].fillStyle
                      = hexToRgba(a.overlayColor, a.overlayOpacity)
                 /\ ops[2].fillStyle.a = a.overlayOpacity
                 /\ <<ops[2].x, ops[2].y, ops[2].w, ops[2].h>> = <<0, 0, W, H>>
            /\ \A j \in (k + 1)..Len(ops) :
                  /\ ops[j].op = "fillText"
                  /\ ops[j].fillStyle.c0 \in {a.textColor,
                                              a.textColor \o <<"C", "C">>}
            /\ ops[k + 1].fillStyle = Solid(a.textColor)]_vars

\* a photo was painted at half opacity under an overlay of #123456 at 0.9,
\* with the text in the configured colour
PhotoUnderOverlayPainted ==
  /\ effect.branch = "photo" /\ ~effect.imgPending
  /\ Len(canvas.ops) >= 3
  /\ canvas.ops[1].op = "drawImage" /\ canvas.ops[1].globalAlpha = 50
  /\ canvas.ops[2].op = "fillRect"
  /\ canvas.ops[2].fillStyle = Rgba(18, 52, 86, 90)
  /\ canvas.ops[2].globalAlpha = 100
  /\ canvas.ops[3].op = "fillText"
  /\ canvas.ops[3].fillStyle = Solid(<<"#","a","b","c","d","e","f">>)

\* C23: a canvas rendered on the palette path starts with a fill of the
\* whole surface: for minimal, paper and night the background colour of the
\* style; for gradient a gradient along the vertical line from the top to
\* the bottom of the surface, from background to backgroundAlt, or to
\* background when backgroundAlt is unset.  The text that follows is
\* painted in the text colour of the style (the reference with its suffix).
PaletteRenderColours ==
  effect.mounted /\ effect.branch = "palette" =>
    LET ops == canvas.ops
        palette == paletteSettings[style]
        H == SIZE_DIMENSIONS[size].height
        fill == ops[1].fillStyle
    IN /\ Len(ops) >= 2
       /\ ops[1].op = "fillRect"
       /\ <<ops[1].x, ops[1].y, ops[1].w, ops[1].h>>
            = <<0, 0, SIZE_DIMENSIONS[size].width, H>>
       /\ fill.c0 = palette.background
       /\ IF style = "gradient"
          THEN /\ fill.kind = "gradient"
               /\ fill.line = <<0, 0, 0, H>>
               /\ fill.c1 = IF palette.backgroundAlt = Undefined
                            THEN palette.background
                            ELSE palette.backgroundAlt
          ELSE fill.kind = "color" /\ fill.c1 = palette.background
       /\ \E j \in 2..Len(ops) : ops[j].op = "fillText"
       /\ \A j \in 2..Len(ops) :
             ops[j].op = "fillText" =>
               /\ ops[j].fillStyle.kind = "color"
               /\ ops[j].fillStyle.c0 \in {palette.text,
                                           palette.text \o <<"C", "C">>}

\* the gradient style without a backgroundAlt was rendered in the story
\* format: the gradient runs from the background colour to itself
GradientWithoutAltPainted ==
  /\ effect.mounted /\ effect.branch = "palette"
  /\ style = "gradient" /\ size = "story"
  /\ paletteSettings.gradient.backgroundAlt = Undefined
  /\ canvas.ops[1].fillStyle
       = LinearGradient(0, 0, 0, 1920, <<"#","1","B","4","3","3","2">>,
                        <<"#","1","B","4","3","3","2">>)

\* C24: on a painted canvas the reference label is drawn exactly when the
\* reference is not empty; it is then the last call, drawn once at
\* x = width / 2 and y = startY + n * lineHeight + 80 under the n verse
\* lines, in font size 36 / 32 / 34 for story / wide / square, and in the
\* colour of the verse lines followed by "CC".
ReferenceLabelDrawn ==
  canvas.ops # <<>> =>
    LET ops == canvas.ops
        W == SIZE_DIMENSIONS[size].width
        H == SIZE_DIMENSIONS[size].height
        bodyFont == IF size = "story" THEN 72 ELSE IF size = "wide" THEN 64 ELSE 68
        refFont == IF size = "story" THEN 36 ELSE IF size = "wide" THEN 32 ELSE 34
        body == {j \in 1..Len(ops) : ops[j].op = "fillText" /\ ops[j].font = bodyFont}
        label == {j \in 1..Len(ops) : ops[j].op = "fillText" /\ ops[j].font # bodyFont}
        n == Cardinality(body)
        lineHeight == (bodyFont * 3) \div 2
    IN /\ n >= 1
       /\ (label # {}) <=> (reference # <<>>)
       /\ reference # <<>> =>
            /\ label = {Len(ops)}
            /\ ops[Len(ops)].text = reference
            /\ ops[Len(ops)].font = refFont
            /\ 2 * ops[Len(ops)].x = W
            /\ 2 * ops[Len(ops)].y = (H - n * lineHeight) + 2 * n * lineHeight + 160
            /\ \A j \in body :
                 /\ ops[j].fillStyle.kind = "color"
                 /\ ops[Len(ops)].fillStyle = Solid(ops[j].fillStyle.c0 \o <<"C", "C">>)

\* the label under the two verse lines of a story picture over a photo
LabelUnderPhotoVerse ==
  /\ size = "story" /\ reference # <<>>
  /\ Len(canvas.ops) = 5
  /\ canvas.ops[1].op = "drawImage"
  /\ LET o == canvas.ops[Len(canvas.ops)]
     IN /\ o.op = "fillText" /\ o.text = reference
        /\ o.x = 540 /\ o.y = 1148 /\ o.font = 36
        /\ o.fillStyle = Solid(<<"#","a","b","c","d","e","f","C","C">>)

\* C25: the two settings objects do not reach into each other's render.
\* A canvas painted by the palette branch is the one any other photo
\* appearance would have given; what a loaded image paints is what any other
\* palette settings and any other style would have given; a step that
\* changes paletteSettings leaves photoAppearance alone, and a step that
\* changes photoAppearance leaves paletteSettings alone.
SettingsIndependent ==
  /\ [](effect.mounted /\ effect.branch = "palette" =>
          \A pa \in {DEFAULT_PHOTO_APPEARANCE,
                     [photoOpacity |-> 50, overlayColor |-> CustomColor,
                      overlayOpacity |-> 90, textColor |-> CustomColor]} :
             canvas.ops
               = drawPaletteBackground([Request EXCEPT !.photoAppearance = pa],
                                       em))
  /\ [][\A i \in 1..MaxLoads, img \in ImageSizes :
          ImgOnload(i, img) /\ ~loads[i].isCancelled =>
            \A s \in Styles,
               ps \in {DEFAULT_PALETTE_SETTINGS,
                       [t \in Styles |-> [background |-> CustomColor,
                                          backgroundAlt |-> CustomColor,
                                          text |-> CustomColor]]} :
               canvas'.ops
                 = canvas.ops
                     \o PhotoOps([loads[i].closure[1] EXCEPT
                                    !.paletteSettings = ps, !.style = s],
                                 img, em)]_vars
  /\ [][/\ paletteSettings' # paletteSettings => photoAppearance' = photoAppearance
        /\ photoAppearance' # photoAppearance => paletteSettings' = paletteSettings]_vars

\* a photo was painted after both the colours of the palette and the photo
\* appearance had been edited
PhotoPaintedWithEditedSettings ==
  /\ canvas.ops # <<>>
  /\ canvas.ops[1].op = "drawImage"
  /\ paletteSettings # DEFAULT_PALETTE_SETTINGS
  /\ photoAppearance # DEFAULT_PHOTO_APPEARANCE

\* C26: the drawn verse lines are the greedy partition of the words of
\* verseText (its pieces between white space): read one after the other the
\* lines give the words of the text in their order, a line of several words
\* is not wider than 0.8 * width, and the first word of the next line would
\* not have fitted at the end of the line before it.
GreedyPartition ==
  effect.mounted =>
    LET n == Len(VerseLineOps)
        line(i) == VerseLineOps[i].text
        words(t) == Trim(ReplaceWhiteSpaceRuns(t, <<" ">>))
        fits(t) == 10 * measureText(t, FontSize(size), em) <= 8 * canvas.width
        firstWord(t) ==
          LET ends == {k \in 1..Len(t) : IsWhiteSpace(t[k])}
          IN IF ends = {} THEN t
             ELSE SubSeq(t, 1, (CHOOSE k \in ends : \A j \in ends : k <= j) - 1)
        RECURSIVE joined(_)
        joined(k) == IF k = 0 THEN <<>> ELSE joined(k - 1) \o <<" ">> \o line(k)
    IN /\ words(joined(n)) = words(verseText)
       /\ \A i \in 1..n : fits(line(i)) \/ IsSingleWord(line(i)) \/ line(i) = <<>>
       /\ \A i \in 1..(n - 1) :
            ~fits(line(i) \o <<" ">> \o firstWord(line(i + 1)))

\* C27: every picture that is downloaded holds a complete composition, a
\* background covering the surface and the text over it; in particular a
\* picture downloaded while the image of a photo render is still loading is
\* not blank.
ExportedSurfaceComplete ==
  [][handleDownload => IsComplete(download'.ops)]_vars

\* C28: once every verse lookup has completed, the verse shown is the one of
\* the lookup issued last.  Every lookup is issued for the translation
\* selected at that moment, and a change of the selection issues one, so
\* the lookup issued last is for the selected translation; when it has
\* succeeded (no lookup is in flight, no error is shown, and the verse
\* constructed with the editor has been replaced) the reference shown
\* carries the label of the selected translation.
LatestLookupShown ==
  /\ lookups = <<>>
  /\ searchError = Null
  /\ reference # InitialReference
  => LET suffix == <<" ", "(">> \o TRANSLATIONS[translation].label \o <<")">>
     IN /\ Len(reference) >= Len(suffix)
        /\ SubSeq(reference, Len(reference) - Len(suffix) + 1, Len(reference))
             = suffix

UrlLookupOnce ==
  /\ [][hasHandledInitialParams => hasHandledInitialParams']_vars
  /\ [][(Mount \/ ParamsEffectRerun) /\ lookups' # lookups =>
          /\ ~hasHandledInitialParams /\ hasHandledInitialParams'
          /\ lookups' = Append(lookups,
                               [query |-> Trim(route.reference),
                                translation |->
                                  IF route.translation \in DOMAIN TRANSLATIONS
                                  THEN route.translation ELSE translation])]_vars
  /\ [][ParamsEffectRerun => UNCHANGED vars]_vars

\* the link asked for the ESV and its lookup has answered; the editor shows
\* the verse of the link in the ESV
LinkVerseShown ==
  /\ hasHandledInitialParams
  /\ route.translation = "esv" /\ translation = "esv"
  /\ lookups = <<>>
  /\ reference = <<"P","s"," ","2","3"," ","(","E","S","V",")">>

====
